---- MODULE Spec2Model ----
(***************************************************************************)
(* companion-memory: the scheduled-job queue (job_table.py, job_worker.py, *)
(* retry_policy.py), the deduplication index (deduplication.py) and the    *)
(* scheduler leader lease (scheduler.py), all sharing one DynamoDB table.  *)
(*                                                                         *)
(* Instants are integers (seconds).  An optional attribute is a sequence:  *)
(* <<>> when the attribute is None/absent, <<v>> when it is set.  An aware *)
(* datetime whose tzinfo need not be UTC is a pair <<instant, utcoffset>>. *)
(***************************************************************************)
EXTENDS Integers, Sequences, FiniteSets, TLC

VARIABLES
    clock,      \* wall clock shared by all processes (clocks in agreement)
    jobs,       \* PK='job' rows: function from sort key <<scheduled_for, job_id>> to item
    workers,    \* per JobWorker: position in poll_and_process_jobs and its locals
    invoked,    \* per job_id: how many times a handler's handle() was entered
    completions,\* per sort key: the workers whose 'completed' write went through
    dedup,      \* PK='scheduled-job#..' rows: function from <<logical_id, date>> to item
    callers,    \* per schedule_if_needed call: position and locals
    reserved,   \* per <<logical_id, date>>: how many try_reserve calls returned True
    lease,      \* the (system#scheduler, lock#main) record: <<>> or <<item>>
    procs,      \* per scheduler process: lock_acquired, liveness, last successful write
    lastCall    \* the most recent SchedulerLock call: operation, process, result

vars == <<clock, jobs, workers, invoked, completions, dedup, callers, reserved,
          lease, procs, lastCall>>

jobVars == <<jobs, workers, invoked, completions>>
dedupVars == <<dedup, callers, reserved>>
lockVars == <<lease, procs, lastCall>>

----------------------------------------------------------------------------
(* Bounds of the model *)

MaxTime == 3
MaxSchedule == 1

(* JobWorker's constructor parameters (job_worker.py:24-49), chosen small *)

PollingLimit == 2
LockTimeout == 2
MaxAttempts == 2
BaseDelaySeconds == 1

(* scheduler.py *)

StaleSeconds == 60
TtlSeconds == 300
LockCheckInterval == 30
MaxLeaseTime == 125

Workers == {"worker-a", "worker-b"}
JobIds == {1, 2}

None == <<>>
Some(v) == <<v>>
IsSet(o) == o # <<>>
Val(o) == o[1]

----------------------------------------------------------------------------
(* aware datetimes and their ISO-8601 text *)

\* the utcoffsets a scheduled_for can carry: UTC, or the zone of a user for
\* whom work_sampling_scheduler builds the slot times with tzinfo=user_tz
Offsets == {-2, 0}

\* datetime.now(UTC), now + timedelta: an instant with tzinfo UTC
utc(t) == <<t, 0>>

\* the instant of an aware datetime (what ==, <, > of two datetimes compare)
Instant(d) == d[1]

\* datetime.isoformat(): the local wall-clock reading followed by the offset
\* suffix, here <<wall, utcoffset>>
isoformat(d) == <<d[1] + d[2], d[2]>>

\* rank of the offset suffix in string order: '+hh:mm' sorts before '-hh:mm'
SuffixRank(off) == IF off >= 0 THEN off ELSE 100 - off

\* string order of two ISO texts: the wall-clock digits first, the suffix last
IsoLeq(a, b) == a[1] < b[1] \/ (a[1] = b[1] /\ SuffixRank(a[2]) <= SuffixRank(b[2]))

----------------------------------------------------------------------------
(* job_models.py *)

\* 'scheduled#' + scheduled_for.isoformat() + '#' + job_id
make_job_sk(scheduled_for, job_id) == <<isoformat(scheduled_for), job_id>>

\* string order of sort keys: the ISO text first, then the id
SkLeq(a, b) == IF a[1] = b[1] THEN a[2] <= b[2] ELSE IsoLeq(a[1], b[1])

ScheduledJob(job_id, scheduled_for, status, attempts, last_error, created_at) ==
    [job_id |-> job_id, job_type |-> "heartbeat_event", payload |-> "p",
     scheduled_for |-> scheduled_for, status |-> status,
     locked_by |-> None, lock_expires_at |-> None,
     attempts |-> attempts, last_error |-> last_error,
     created_at |-> created_at, completed_at |-> None]

----------------------------------------------------------------------------
(* retry_policy.py *)

RECURSIVE Pow2(_)
Pow2(n) == IF n <= 0 THEN 1 ELSE 2 * Pow2(n - 1)

\* Variant: the retry is due at once
calculate_delay_Zero(attempts) == 0

\* Variant: the exponent is attempts instead of attempts - 1
calculate_delay_OffByOne(attempts) == BaseDelaySeconds * Pow2(attempts)

calculate_delay(attempts) == BaseDelaySeconds * Pow2(attempts - 1)

calculate_next_run(now, attempts) == now + calculate_delay(attempts)

\* Variant: no retry is ever granted
should_retry_Never(attempts) == FALSE

\* Variant: the attempt that reaches max_attempts is still retried
should_retry_Inclusive(attempts) == attempts <= MaxAttempts

should_retry(attempts) == attempts < MaxAttempts

----------------------------------------------------------------------------
(* job_table.py *)

put_job(tbl, job) ==
    LET sk == make_job_sk(job.scheduled_for, job.job_id)
    IN  [k \in DOMAIN tbl \cup {sk} |-> IF k = sk THEN job ELSE tbl[k]]

\* UpdateItem with a SET expression and no ConditionExpression: every named
\* attribute is overwritten whatever the item holds; a missing item is created
\* with the key and the named attributes only.
update_job_status(tbl, job_id, scheduled_for, updates) ==
    LET sk == make_job_sk(scheduled_for, job_id)
        old == IF sk \in DOMAIN tbl
               THEN tbl[sk]
               ELSE [job_id |-> job_id, job_type |-> "", payload |-> "",
                     scheduled_for |-> scheduled_for, status |-> "",
                     locked_by |-> None, lock_expires_at |-> None,
                     attempts |-> 0, last_error |-> None,
                     created_at |-> Instant(scheduled_for), completed_at |-> None]
        new == [f \in DOMAIN old |->
                   IF f \in DOMAIN updates THEN updates[f] ELSE old[f]]
    IN  [k \in DOMAIN tbl \cup {sk} |-> IF k = sk THEN new ELSE tbl[k]]

\* the keys of S in ascending sort-key order
RECURSIVE SortKeys(_)
SortKeys(S) ==
    IF S = {} THEN <<>>
    ELSE LET m == CHOOSE x \in S : \A y \in S : SkLeq(x, y)
         IN  <<m>> \o SortKeys(S \ {m})

Take(s, n) == SubSeq(s, 1, IF Len(s) < n THEN Len(s) ELSE n)

\* Query PK='job' AND SK <= 'scheduled#<now.isoformat()>#z', Limit=limit,
\* filter status = 'pending'.  The key condition compares strings.  DynamoDB
\* applies Limit to the items read in key order and the filter to that page;
\* the code reads one page only.
get_due_jobs(tbl, now, limit) ==
    LET inRange == {k \in DOMAIN tbl : IsoLeq(k[1], isoformat(utc(now)))}
        page == Take(SortKeys(inRange), limit)
    IN  SelectSeq([i \in 1..Len(page) |-> tbl[page[i]]],
                  LAMBDA item : item.status = "pending")

----------------------------------------------------------------------------
(* job_worker.py *)

IdleWorker == [pc |-> "idle", now |-> 0, due |-> <<>>, i |-> 0, count |-> 0]

\* the job the loop of poll_and_process_jobs is at
CurJob(w) == workers[w].due[workers[w].i]

\* Variant: a lock expiring exactly at now still holds
_is_job_eligible_Strict(job, now) ==
    IF job.status # "pending" THEN FALSE
    ELSE ~(IsSet(job.lock_expires_at) /\ Val(job.lock_expires_at) >= now)

_is_job_eligible(job, now) ==
    IF job.status # "pending" THEN FALSE
    ELSE ~(IsSet(job.lock_expires_at) /\ Val(job.lock_expires_at) > now)

\* the write of _try_claim_job
ClaimWrite(tbl, w, job, now) ==
    update_job_status(tbl, job.job_id, job.scheduled_for,
        [status |-> "in_progress", locked_by |-> Some(w),
         lock_expires_at |-> Some(now + LockTimeout)])

\* Variant: the completed write leaves the lock attributes alone
CompleteWrite_KeepLock(tbl, job, now) ==
    update_job_status(tbl, job.job_id, job.scheduled_for,
        [status |-> "completed", completed_at |-> Some(now)])

\* the write of _process_job after dispatch returned
CompleteWrite(tbl, job, now) ==
    update_job_status(tbl, job.job_id, job.scheduled_for,
        [status |-> "completed", completed_at |-> Some(now),
         locked_by |-> None, lock_expires_at |-> None])

\* the write of _handle_job_failure's else branch
DeadLetterWrite(tbl, job, new_attempts) ==
    update_job_status(tbl, job.job_id, job.scheduled_for,
        [status |-> "dead_letter", attempts |-> new_attempts,
         last_error |-> Some("error"), locked_by |-> None, lock_expires_at |-> None])

\* the first write of _reschedule_job
FailedWrite(tbl, job, attempts) ==
    update_job_status(tbl, job.job_id, job.scheduled_for,
        [status |-> "failed", attempts |-> attempts,
         last_error |-> Some("error"), locked_by |-> None, lock_expires_at |-> None])

\* the row _reschedule_job builds for the retry; next_run is now + delay and
\* carries the tzinfo of the poll's now, UTC
RescheduledJob(job, next_run, attempts) ==
    [ScheduledJob(job.job_id, utc(next_run), "pending", attempts, Some("error"),
                  job.created_at)
        EXCEPT !.job_type = job.job_type, !.payload = job.payload]

\* poll_and_process_jobs, up to the loop: now is read and the due jobs are fetched
PollStart(w) ==
    /\ workers[w].pc = "idle"
    /\ workers' = [workers EXCEPT ![w] =
          [pc |-> "loop", now |-> clock,
           due |-> get_due_jobs(jobs, clock, PollingLimit), i |-> 1, count |-> 0]]
    /\ UNCHANGED <<clock, jobs, invoked, completions, dedupVars, lockVars>>

\* the loop is exhausted: poll_and_process_jobs returns processed_count
PollReturn(w) ==
    /\ workers[w].pc = "loop"
    /\ workers[w].i > Len(workers[w].due)
    /\ workers' = [workers EXCEPT ![w] = IdleWorker]
    /\ UNCHANGED <<clock, jobs, invoked, completions, dedupVars, lockVars>>

\* loop body, job not eligible: continue
SkipJob(w) ==
    /\ workers[w].pc = "loop"
    /\ workers[w].i <= Len(workers[w].due)
    /\ ~_is_job_eligible(CurJob(w), workers[w].now)
    /\ workers' = [workers EXCEPT ![w].i = @ + 1]
    /\ UNCHANGED <<clock, jobs, invoked, completions, dedupVars, lockVars>>

\* loop body, job eligible: _try_claim_job writes the claim
_try_claim_job(w) ==
    /\ workers[w].pc = "loop"
    /\ workers[w].i <= Len(workers[w].due)
    /\ _is_job_eligible(CurJob(w), workers[w].now)
    /\ jobs' = ClaimWrite(jobs, w, CurJob(w), workers[w].now)
    /\ workers' = [workers EXCEPT ![w].pc = "claimed"]
    /\ UNCHANGED <<clock, invoked, completions, dedupVars, lockVars>>

\* the job types with a registered handler
Handlers == {"heartbeat_event", "generate_summary", "send_slack_message",
             "work_sampling_prompt"}

\* payload_model.model_validate: the payload "invalid" stands for one the
\* handler's schema rejects
model_validate(payload) == payload # "invalid"

\* Variant: the handler is called whatever the job holds
CanDispatch_Always(job) == TRUE

\* JobDispatcher.dispatch reaches handle(): a handler is registered for the
\* job_type and the payload passes its schema; otherwise ValueError is raised
CanDispatch(job) == job.job_type \in Handlers /\ model_validate(job.payload)

\* _process_job: dispatch raises before the handler, or runs the handler,
\* which returns or raises
Dispatch(w) ==
    /\ workers[w].pc = "claimed"
    /\ IF CanDispatch(CurJob(w))
       THEN /\ invoked' = [invoked EXCEPT ![CurJob(w).job_id] = @ + 1]
            /\ \E outcome \in {"returned", "raised"} :
                  workers' = [workers EXCEPT ![w].pc = outcome]
       ELSE /\ invoked' = invoked
            /\ workers' = [workers EXCEPT ![w].pc = "raised"]
    /\ UNCHANGED <<clock, jobs, completions, dedupVars, lockVars>>

\* _process_job after the handler returned: mark the job completed
Complete(w) ==
    /\ workers[w].pc = "returned"
    /\ jobs' = CompleteWrite(jobs, CurJob(w), workers[w].now)
    /\ completions' =
          LET sk == make_job_sk(CurJob(w).scheduled_for, CurJob(w).job_id)
          IN  [k \in DOMAIN completions \cup {sk} |->
                 IF k = sk
                 THEN (IF k \in DOMAIN completions THEN completions[k] ELSE {}) \cup {w}
                 ELSE completions[k]]
    /\ workers' = [workers EXCEPT ![w].pc = "loop", ![w].i = @ + 1, ![w].count = @ + 1]
    /\ UNCHANGED <<clock, invoked, dedupVars, lockVars>>

\* _handle_job_failure: retry decision, then the dead_letter write or the
\* first write of _reschedule_job
_handle_job_failure(w) ==
    /\ workers[w].pc = "raised"
    /\ LET job == CurJob(w)
           new_attempts == job.attempts + 1
       IN  IF should_retry(new_attempts)
           THEN /\ jobs' = FailedWrite(jobs, job, new_attempts)
                /\ workers' = [workers EXCEPT ![w].pc = "rescheduling"]
           ELSE /\ jobs' = DeadLetterWrite(jobs, job, new_attempts)
                /\ workers' = [workers EXCEPT ![w].pc = "loop", ![w].i = @ + 1,
                                                ![w].count = @ + 1]
    /\ UNCHANGED <<clock, invoked, completions, dedupVars, lockVars>>

\* Variant: the retry also moves the reservations of the failed row to the
\* retry row's key
_reschedule_job_Repoint(w) ==
    /\ workers[w].pc = "rescheduling"
    /\ LET job == CurJob(w)
           new_attempts == job.attempts + 1
           next_run == calculate_next_run(workers[w].now, new_attempts)
           retry == RescheduledJob(job, next_run, new_attempts)
       IN  /\ jobs' = put_job(jobs, retry)
           /\ dedup' = [key \in DOMAIN dedup |->
                           IF dedup[key].job_sk = make_job_sk(job.scheduled_for, job.job_id)
                           THEN [dedup[key] EXCEPT !.job_sk =
                                     make_job_sk(retry.scheduled_for, retry.job_id)]
                           ELSE dedup[key]]
    /\ workers' = [workers EXCEPT ![w].pc = "loop", ![w].i = @ + 1, ![w].count = @ + 1]
    /\ UNCHANGED <<clock, invoked, completions, callers, reserved, lockVars>>

\* _reschedule_job, second write: the retry row is stored
_reschedule_job(w) ==
    /\ workers[w].pc = "rescheduling"
    /\ LET job == CurJob(w)
           new_attempts == job.attempts + 1
           next_run == calculate_next_run(workers[w].now, new_attempts)
       IN  jobs' = put_job(jobs, RescheduledJob(job, next_run, new_attempts))
    /\ workers' = [workers EXCEPT ![w].pc = "loop", ![w].i = @ + 1, ![w].count = @ + 1]
    /\ UNCHANGED <<clock, invoked, completions, dedupVars, lockVars>>

\* the worker's process crash-stops holding a claim it has not finished
CrashWorker(w) ==
    /\ workers[w].pc \in {"claimed", "returned", "raised", "rescheduling"}
    /\ \E v \in Workers \ {w} : workers[v].pc # "crashed"
    /\ workers' = [workers EXCEPT ![w].pc = "crashed"]
    /\ UNCHANGED <<clock, jobs, invoked, completions, dedupVars, lockVars>>

Tick ==
    /\ clock < MaxTime
    /\ clock' = clock + 1
    /\ UNCHANGED <<jobVars, dedupVars, lockVars>>

----------------------------------------------------------------------------
(* deduplication.py *)

Calls == {"c1", "c2", "c3"}
LogicalIds == {"daily_summary#U1", "daily_summary#U2"}
Dates == {"2025-01-15", "2025-01-16"}

\* the uuid of the job each call brings: distinct calls, distinct job_ids
CallJobId(c) == CASE c = "c1" -> 1 [] c = "c2" -> 2 [] OTHER -> 3

\* the key of a reservation: PK = 'scheduled-job#' + logical_id, SK = date
DedupKey(logical_id, date) == <<"scheduled-job#", logical_id, date>>

\* Variant: put_item without attribute_not_exists(PK)
try_reserve_Unconditional(tbl, logical_id, date, job_pk, job_sk) ==
    LET key == DedupKey(logical_id, date)
        item == [job_pk |-> job_pk, job_sk |-> job_sk]
    IN  [dedup |-> [k \in DOMAIN tbl \cup {key} |-> IF k = key THEN item ELSE tbl[k]],
         ok |-> TRUE]

\* try_reserve: the index afterwards and the value returned
try_reserve(tbl, logical_id, date, job_pk, job_sk) ==
    LET key == DedupKey(logical_id, date)
        item == [job_pk |-> job_pk, job_sk |-> job_sk]
    IN  IF key \notin DOMAIN tbl
        THEN [dedup |-> [k \in DOMAIN tbl \cup {key} |-> IF k = key THEN item ELSE tbl[k]],
              ok |-> TRUE]
        ELSE [dedup |-> tbl, ok |-> FALSE]

IdleCall == [pc |-> "idle", logical_id |-> "", date |-> "", scheduled_for |-> utc(0),
             ret |-> FALSE]

\* Variant: the job is stored whatever try_reserve returned
AfterReserve_Always(ok) == "reserved"

\* schedule_if_needed's branch on try_reserve's result: put_job follows only
\* a successful reservation
AfterReserve(ok) == IF ok THEN "reserved" ELSE "done"

\* schedule_if_needed, up to and including try_reserve
schedule_if_needed(c, logical_id, date, t) ==
    /\ callers[c].pc = "idle"
    /\ LET r == try_reserve(dedup, logical_id, date, "job",
                            make_job_sk(utc(t), CallJobId(c)))
       IN  /\ dedup' = r.dedup
           /\ reserved' = IF r.ok
                          THEN [reserved EXCEPT ![DedupKey(logical_id, date)] = @ + 1]
                          ELSE reserved
           /\ callers' = [callers EXCEPT ![c] =
                 [pc |-> AfterReserve(r.ok), logical_id |-> logical_id, date |-> date,
                  scheduled_for |-> utc(t), ret |-> FALSE]]
    /\ UNCHANGED <<clock, jobVars, lockVars>>

\* schedule_if_needed after a successful reservation: put_job, return True
StoreReservedJob(c) ==
    /\ callers[c].pc = "reserved"
    /\ jobs' = put_job(jobs, ScheduledJob(CallJobId(c), callers[c].scheduled_for,
                                          "pending", 0, None, clock))
    /\ callers' = [callers EXCEPT ![c].pc = "done", ![c].ret = TRUE]
    /\ UNCHANGED <<clock, workers, invoked, completions, dedup, reserved, lockVars>>

InitDedup ==
    /\ clock = 0
    /\ jobs = <<>>
    /\ workers = <<>>
    /\ invoked = <<>>
    /\ completions = <<>>
    /\ dedup = <<>>
    /\ callers = [c \in Calls |-> IdleCall]
    /\ reserved = [k \in {DedupKey(l, d) : l \in LogicalIds, d \in Dates} |-> 0]
    /\ lease = None
    /\ procs = <<>>
    /\ lastCall = <<>>

NextDedup ==
    \/ \E c \in Calls, l \in LogicalIds, d \in Dates, t \in 0..MaxSchedule :
          schedule_if_needed(c, l, d, t)
    \/ \E c \in Calls : StoreReservedJob(c)

SpecDedup == InitDedup /\ [][NextDedup]_vars

----------------------------------------------------------------------------
(* Properties of the deduplication index *)

CallKey(c) == DedupKey(callers[c].logical_id, callers[c].date)

\* C8: for every (logical_id, bucket), try_reserve returns true for at most
\* one call, the first to reach the store, and false for every other call; a
\* call on one pair neither reads nor changes the reservation of another pair.
C8_ReserveOnce ==
    /\ [](\A k \in DOMAIN reserved : reserved[k] <= 1)
    /\ [][\A c \in Calls :
            (callers[c].pc = "idle" /\ callers'[c].pc # "idle") =>
              LET key == DedupKey(callers'[c].logical_id, callers'[c].date)
              IN  /\ (callers'[c].pc = "reserved") <=> (key \notin DOMAIN dedup)
                  /\ DOMAIN dedup' = DOMAIN dedup \cup {key}
                  /\ \A k \in DOMAIN dedup : dedup'[k] = dedup[k]]_vars

\* one pair was reserved once and refused once, and a call on another pair
\* was still granted afterwards
C8_Witness ==
    \E a, b, c \in Calls :
        /\ a # b /\ callers[a].pc # "idle" /\ callers[b].pc = "done"
        /\ CallKey(a) = CallKey(b)
        /\ callers[a].pc = "reserved" /\ ~callers[b].ret
        /\ callers[c].pc = "done" /\ callers[c].ret /\ CallKey(c) # CallKey(a)
        /\ reserved[CallKey(a)] = 1 /\ reserved[CallKey(c)] = 1

\* the job rows written under the job_ids of calls a and b
RowsOf(a, b) == {k \in DOMAIN jobs : k[2] \in {CallJobId(a), CallJobId(b)}}

CallSk(c) == make_job_sk(callers[c].scheduled_for, CallJobId(c))

\* C9: two schedule_if_needed calls for the same (logical_id, bucket) with
\* different job_ids, both finished and no other call on that pair: exactly
\* one returned true, the only job row written is the winner's, and the
\* reservation row exists.
C9_OneWinner ==
    \A a, b \in Calls :
        (/\ a # b
         /\ callers[a].pc = "done" /\ callers[b].pc = "done"
         /\ CallKey(a) = CallKey(b)
         /\ \A c \in Calls \ {a, b} : callers[c].pc = "idle" \/ CallKey(c) # CallKey(a))
        => /\ callers[a].ret # callers[b].ret
           /\ RowsOf(a, b) = {IF callers[a].ret THEN CallSk(a) ELSE CallSk(b)}
           /\ CallKey(a) \in DOMAIN dedup
           /\ dedup[CallKey(a)].job_sk = (IF callers[a].ret THEN CallSk(a) ELSE CallSk(b))

\* of two finished calls on one pair, one won and stored its row, the other
\* lost and stored nothing
C9_Witness ==
    \E a, b \in Calls :
        /\ a # b /\ CallKey(a) = CallKey(b)
        /\ callers[a].pc = "done" /\ callers[a].ret
        /\ callers[b].pc = "done" /\ ~callers[b].ret
        /\ \A c \in Calls \ {a, b} : callers[c].pc = "idle"
        /\ RowsOf(a, b) = {CallSk(a)}

----------------------------------------------------------------------------
(* scheduler.py: SchedulerLock *)

Procs == {"p1", "p2", "p3"}

\* Variant: the stale cutoff compared with <= instead of <
AcquireCondition_Inclusive(lse, current_time) ==
    lse = None \/ Val(lse).timestamp <= current_time - StaleSeconds

\* Variant: attribute_not_exists(PK) alone: a stale record is never replaced
AcquireCondition_NoSteal(lse, current_time) == lse = None

\* ConditionExpression of acquire's put_item
AcquireCondition(lse, current_time) ==
    lse = None \/ Val(lse).timestamp < current_time - StaleSeconds

\* Variant: put_item without a ConditionExpression
acquire_Unconditional(lse, p, current_time) ==
    [lease |-> Some([process_id |-> p, timestamp |-> current_time,
                     ttl |-> current_time + TtlSeconds]),
     ok |-> TRUE]

\* SchedulerLock.acquire by process p at current_time: the record afterwards
\* and the value returned (lock_acquired is set when ok)
acquire(lse, p, current_time) ==
    IF AcquireCondition(lse, current_time)
    THEN [lease |-> Some([process_id |-> p, timestamp |-> current_time,
                          ttl |-> current_time + TtlSeconds]),
          ok |-> TRUE]
    ELSE [lease |-> lse, ok |-> FALSE]

\* ConditionExpression of refresh's update_item and release's delete_item
OwnerCondition(lse, p) == lse # None /\ Val(lse).process_id = p

\* Variant: update_item without the ConditionExpression
refresh_Unconditional(lse, p, current_time, lock_acquired) ==
    IF ~lock_acquired
    THEN [lease |-> lse, ok |-> FALSE, lock_acquired |-> FALSE]
    ELSE [lease |-> Some([process_id |-> IF lse = None THEN "" ELSE Val(lse).process_id,
                          timestamp |-> current_time,
                          ttl |-> current_time + TtlSeconds]),
          ok |-> TRUE, lock_acquired |-> TRUE]

\* SchedulerLock.refresh by process p at current_time, its local flag being
\* lock_acquired: the record afterwards, the value returned and the flag
\* afterwards
refresh(lse, p, current_time, lock_acquired) ==
    IF ~lock_acquired
    THEN [lease |-> lse, ok |-> FALSE, lock_acquired |-> FALSE]
    ELSE IF OwnerCondition(lse, p)
         THEN [lease |-> Some([Val(lse) EXCEPT !.timestamp = current_time,
                                               !.ttl = current_time + TtlSeconds]),
               ok |-> TRUE, lock_acquired |-> TRUE]
         ELSE [lease |-> lse, ok |-> FALSE, lock_acquired |-> FALSE]

\* Variant: delete_item without the ConditionExpression
release_Unconditional(lse, p, lock_acquired) ==
    IF lock_acquired THEN None ELSE lse

\* SchedulerLock.release: the record afterwards (lock_acquired is always cleared)
release(lse, p, lock_acquired) ==
    IF lock_acquired /\ OwnerCondition(lse, p) THEN None ELSE lse

----------------------------------------------------------------------------
(* scheduler.py: DistributedScheduler *)

ActiveJobIds == {"daily_summary_scheduler", "work_sampling_scheduler",
                 "job_worker_poller", "job_cleanup"}

NewProc == [state |-> "stopped", lock_acquired |-> FALSE, jobs_added |-> FALSE,
            timers |-> {}, lastOk |-> None, refreshed |-> "never"]

\* _add_active_jobs: the first add_job uses the id user_timezone_sync; the
\* timer scheduler refuses an id it already holds (ConflictingIdError), which
\* leaves the method before anything is installed
_add_active_jobs(pr) ==
    IF pr.jobs_added THEN pr
    ELSE IF "user_timezone_sync" \in pr.timers THEN pr
    ELSE [pr EXCEPT !.timers = @ \cup {"user_timezone_sync"} \cup ActiveJobIds,
                    !.jobs_added = TRUE]

\* Variant: nothing is removed
_remove_active_jobs_Keep(pr) == pr

_remove_active_jobs(pr) ==
    IF ~pr.jobs_added THEN pr
    ELSE [pr EXCEPT !.timers = @ \ ActiveJobIds, !.jobs_added = FALSE]

\* _attempt_lock_acquisition: acquire, and on success _add_active_jobs
AttemptAcquire(p, pr) ==
    LET r == acquire(lease, p, clock)
    IN  /\ lease' = r.lease
        /\ lastCall' = [op |-> "acquire", proc |-> p, ok |-> r.ok]
        /\ procs' = [procs EXCEPT ![p] =
              IF r.ok
              THEN _add_active_jobs([pr EXCEPT !.lock_acquired = TRUE,
                                               !.lastOk = Some(clock)])
              ELSE pr]

\* DistributedScheduler.start
start(p) ==
    /\ procs[p].state = "stopped"
    /\ AttemptAcquire(p, [procs[p] EXCEPT !.state = "running",
                                          !.timers = {"lock_manager"}])
    /\ UNCHANGED <<clock, jobVars, dedupVars>>

\* one firing of the lock_manager timer
_manage_lock(p) ==
    /\ procs[p].state = "running"
    /\ IF procs[p].lock_acquired
       THEN LET r == refresh(lease, p, clock, procs[p].lock_acquired)
            IN  /\ lease' = r.lease
                /\ lastCall' = [op |-> "refresh", proc |-> p, ok |-> r.ok]
                /\ procs' = [procs EXCEPT ![p] =
                      IF r.ok
                      THEN [procs[p] EXCEPT !.lastOk = Some(clock),
                                            !.refreshed = "passed"]
                      ELSE _remove_active_jobs([procs[p] EXCEPT !.lock_acquired = FALSE,
                                                                !.refreshed = "failed"])]
       ELSE AttemptAcquire(p, procs[p])
    /\ UNCHANGED <<clock, jobVars, dedupVars>>

\* DistributedScheduler.shutdown: remove the active jobs, stop the timer
\* scheduler, release the lease
shutdown(p) ==
    /\ procs[p].state = "running"
    /\ lease' = release(lease, p, procs[p].lock_acquired)
    /\ lastCall' = [op |-> "release", proc |-> p, ok |-> TRUE]
    /\ procs' = [procs EXCEPT ![p] =
          [_remove_active_jobs(procs[p]) EXCEPT !.state = "stopped", !.timers = {},
                                                !.lock_acquired = FALSE,
                                                !.lastOk = None, !.refreshed = "never"]]
    /\ UNCHANGED <<clock, jobVars, dedupVars>>

\* the process crash-stops: nothing is released
CrashProc(p) ==
    /\ procs[p].state = "running"
    /\ procs' = [procs EXCEPT ![p].state = "crashed"]
    /\ UNCHANGED <<clock, lease, lastCall, jobVars, dedupVars>>

\* time passes between timer firings
TickLease ==
    /\ \E d \in {LockCheckInterval, LockCheckInterval + 1} :
          /\ clock + d <= MaxLeaseTime
          /\ clock' = clock + d
    /\ UNCHANGED <<jobVars, dedupVars, lockVars>>

InitLock ==
    /\ clock = 0
    /\ jobs = <<>>
    /\ workers = <<>>
    /\ invoked = <<>>
    /\ completions = <<>>
    /\ dedup = <<>>
    /\ callers = <<>>
    /\ reserved = <<>>
    /\ lease = None
    /\ procs = [p \in Procs |-> NewProc]
    /\ lastCall = [op |-> "none", proc |-> "none", ok |-> FALSE]

NextLock ==
    \/ TickLease
    \/ \E p \in Procs : start(p)
    \/ \E p \in Procs : _manage_lock(p)
    \/ \E p \in Procs : shutdown(p)
    \/ \E p \in Procs : CrashProc(p)

SpecLock == InitLock /\ [][NextLock]_vars

\* the timer scheduler fires lock_manager on every running process, and time passes
FairSpecLock ==
    /\ SpecLock
    /\ WF_vars(TickLease)
    /\ \A p \in Procs : WF_vars(_manage_lock(p))

----------------------------------------------------------------------------
(* Properties of the leader lease *)

Running(p) == procs[p].state = "running"

\* a step in which process p calls SchedulerLock.acquire
AcquireCall(p) == start(p) \/ (_manage_lock(p) /\ ~procs[p].lock_acquired)

\* C5 as stated: at any instant at most one process has lock_acquired true
\* having passed its most recent Refresh.
C5_SingleHolderAfterRefresh ==
    Cardinality({p \in Procs : /\ Running(p)
                               /\ procs[p].lock_acquired
                               /\ procs[p].refreshed = "passed"}) <= 1

\* C5 amended: at any instant at most one process has lock_acquired true
\* with its most recent successful Acquire or Refresh no more than
\* StaleSeconds old.
FreshHolders ==
    {p \in Procs : /\ Running(p)
                   /\ procs[p].lock_acquired
                   /\ IsSet(procs[p].lastOk)
                   /\ clock - Val(procs[p].lastOk) <= StaleSeconds}

C5_SingleFreshHolder == Cardinality(FreshHolders) <= 1

\* two running processes both have lock_acquired true, one of them fresh
C5_Witness ==
    \E p, q \in Procs :
        /\ p # q /\ Running(p) /\ Running(q)
        /\ procs[p].lock_acquired /\ procs[q].lock_acquired
        /\ FreshHolders = {q}

\* C6: acquire succeeds iff no record exists or the record's timestamp is
\* strictly less than now - 60; on success the record carries the caller's
\* process_id, timestamp = now, ttl = now + 300 and lock_acquired becomes
\* true; otherwise false is returned and record and flag are unchanged; a
\* second acquire racing on the table the first has written is refused.
C6_AcquireIff ==
    [][\A p \in Procs : AcquireCall(p) =>
         LET free == lease = None \/ Val(lease).timestamp < clock - StaleSeconds
         IN  /\ lastCall' = [op |-> "acquire", proc |-> p, ok |-> free]
             /\ free => /\ lease' = Some([process_id |-> p, timestamp |-> clock,
                                          ttl |-> clock + TtlSeconds])
                        /\ procs'[p].lock_acquired
                        /\ ~(lease' = None \/
                              Val(lease').timestamp < clock' - StaleSeconds)
             /\ ~free => /\ lease' = lease
                         /\ procs'[p].lock_acquired = procs[p].lock_acquired]_vars

\* an acquire has just replaced a stale record whose writer still has its flag
C6_Witness ==
    /\ lastCall.op = "acquire" /\ lastCall.ok
    /\ lease # None /\ Val(lease).process_id = lastCall.proc
    /\ Val(lease).timestamp = clock /\ clock > StaleSeconds
    /\ \E q \in Procs \ {lastCall.proc} : procs[q].lock_acquired

\* the lease record was written by process h, which has crash-stopped
HeldByCrashed(h) ==
    /\ lease # None /\ Val(lease).process_id = h
    /\ procs[h].state = "crashed"

\* C7: while a crashed holder's record is within 60 seconds of now every
\* other process's acquire is refused; once more than 60 seconds have passed
\* a process that keeps running eventually acquires and the record carries
\* its id.
C7_StaleSteal ==
    /\ [][\A h, p \in Procs :
            (HeldByCrashed(h) /\ clock - Val(lease).timestamp <= StaleSeconds
               /\ AcquireCall(p))
            => (lease' = lease /\ ~procs'[p].lock_acquired)]_vars
    /\ \A h \in Procs :
         (HeldByCrashed(h) /\ clock + 3 * (LockCheckInterval + 1) <= MaxLeaseTime)
         ~> \/ lease # None /\ Running(Val(lease).process_id)
            \/ \A q \in Procs : ~Running(q)

\* a running process holds the record it took over from a crashed holder
C7_Witness ==
    \E h \in Procs :
        /\ procs[h].state = "crashed" /\ procs[h].lock_acquired
        /\ lease # None /\ Running(Val(lease).process_id)
        /\ lastCall = [op |-> "acquire", proc |-> Val(lease).process_id, ok |-> TRUE]
        /\ IsSet(procs[h].lastOk) /\ clock - Val(procs[h].lastOk) > StaleSeconds

----------------------------------------------------------------------------
(* The job queue: external enqueues, workers polling, time passing *)

\* the tables external callers have left with put_job: per job_id no row, or
\* one pending row with attempts = 0, its scheduled_for in UTC or in a user's
\* zone, either unlocked or carrying the lock of a worker outside the model
\* that expires at LockTimeout
InitialRows(j) ==
    {ScheduledJob(j, <<t, off>>, "pending", 0, None, 0) :
        t \in 0..MaxSchedule, off \in Offsets}
    \cup {[ScheduledJob(j, <<t, off>>, "pending", 0, None, 0) EXCEPT
              !.locked_by = Some("worker-x"),
              !.lock_expires_at = Some(LockTimeout)] :
           t \in 0..MaxSchedule, off \in Offsets}

InitialTables(ids) ==
    LET choices == [ids -> {None} \cup {Some(r) : r \in UNION {InitialRows(j) : j \in ids}}]
        ok(c) == \A j \in ids : IsSet(c[j]) => Val(c[j]).job_id = j
        table(c) == LET present == {j \in ids : IsSet(c[j])}
                        keys == {make_job_sk(Val(c[j]).scheduled_for, j) : j \in present}
                    IN  [k \in keys |-> Val(c[k[2]])]
    IN  {table(c) : c \in {c \in choices : ok(c)}}

InitJobs ==
    /\ clock = 0
    /\ jobs \in InitialTables({1})
    /\ workers = [w \in Workers |-> IdleWorker]
    /\ invoked = [j \in JobIds |-> 0]
    /\ completions = <<>>
    /\ dedup = <<>>
    /\ callers = <<>>
    /\ reserved = <<>>
    /\ lease = None
    /\ procs = <<>>
    /\ lastCall = <<>>

NextJobs ==
    \/ Tick
    \/ \E w \in Workers : PollStart(w)
    \/ \E w \in Workers : PollReturn(w)
    \/ \E w \in Workers : SkipJob(w)
    \/ \E w \in Workers : _try_claim_job(w)
    \/ \E w \in Workers : Dispatch(w)
    \/ \E w \in Workers : Complete(w)
    \/ \E w \in Workers : _handle_job_failure(w)
    \/ \E w \in Workers : _reschedule_job(w)
    \/ \E w \in Workers : CrashWorker(w)

SpecJobs == InitJobs /\ [][NextJobs]_vars

----------------------------------------------------------------------------
(* Properties of the job queue *)

\* the sort key of the job worker w is at
CurSk(w) == make_job_sk(CurJob(w).scheduled_for, CurJob(w).job_id)

\* worker w's claim write went through and it has not yet finished the job
HoldsClaim(w) == workers[w].pc \in {"claimed", "returned", "raised", "rescheduling"}

\* C1: for every job row, at most one worker ever performs a successful
\* 'completed' status transition on it.
C1_SingleCompletion ==
    \A k \in DOMAIN completions : Cardinality(completions[k]) <= 1

\* C2: of two workers that read the same pending row at most one claim write
\* succeeds, the loser never reaches the handler, and the row keeps the
\* winner's locked_by while the winner's lock has not expired.
C2_ExclusiveClaim ==
    /\ \A w1, w2 \in Workers :
         (w1 # w2 /\ HoldsClaim(w1) /\ HoldsClaim(w2)) => CurSk(w1) # CurSk(w2)
    /\ \A w \in Workers :
         (workers[w].pc = "claimed" /\ clock < workers[w].now + LockTimeout)
         => /\ jobs[CurSk(w)].status = "in_progress"
            /\ jobs[CurSk(w)].locked_by = Some(w)

\* C3: a status write takes effect only on a row in the state the writer
\* expects: a claim changes nothing unless the row is pending, and a row
\* that is completed, failed or dead_letter never changes status again.
C3_NoBlindOverwrite ==
    [][/\ \A k \in DOMAIN jobs :
            jobs[k].status \in {"completed", "failed", "dead_letter"}
            => jobs'[k].status = jobs[k].status
       /\ \A w \in Workers :
            (_try_claim_job(w) /\ jobs[CurSk(w)].status # "pending") => jobs' = jobs]_vars

\* C4 (the part a finite run decides): a row left in_progress by a crashed
\* worker is eligible to be reclaimed once lock_expires_at <= now, that is, a
\* poll at now fetches it and finds it eligible.
C4_ExpiredClaimReclaimable ==
    \A k \in DOMAIN jobs :
        (/\ jobs[k].status = "in_progress"
         /\ IsSet(jobs[k].locked_by)
         /\ workers[Val(jobs[k].locked_by)].pc = "crashed"
         /\ IsSet(jobs[k].lock_expires_at)
         /\ Val(jobs[k].lock_expires_at) <= clock)
        => LET due == get_due_jobs(jobs, clock, PollingLimit)
           IN  \E i \in 1..Len(due) :
                  due[i] = jobs[k] /\ _is_job_eligible(due[i], clock)

\* C10: for a job enqueued with attempts = 0 the handler is invoked at most
\* max_attempts times in total for that job_id.
C10_BoundedRetry == \A j \in DOMAIN invoked : invoked[j] <= MaxAttempts

----------------------------------------------------------------------------
(* Properties of failure handling *)

\* C11: when the handler fails for a claimed row read with attempts = a, let
\* a' = a + 1.  If a' < max_attempts the row becomes failed with attempts = a'
\* and last_error set, and then exactly one row is written: pending, same
\* job_id, job_type, payload and created_at, attempts = a', scheduled_for =
\* now + base_delay_seconds * 2^(a'-1), every other row untouched.  Otherwise
\* the row becomes dead_letter with attempts = a' and no row is written.
C11_FailureHandling ==
    [][\A w \in Workers :
         LET job == CurJob(w)
             a1 == job.attempts + 1
             now == workers[w].now
             retry_sk == <<<<now + BaseDelaySeconds * Pow2(a1 - 1), 0>>, job.job_id>>
             moved == workers'[w] # workers[w] /\ workers'[w].pc # "crashed"
         IN  /\ (workers[w].pc = "raised" /\ moved) =>
                  /\ DOMAIN jobs' = DOMAIN jobs
                  /\ \A k \in DOMAIN jobs \ {CurSk(w)} : jobs'[k] = jobs[k]
                  /\ jobs'[CurSk(w)].attempts = a1
                  /\ IsSet(jobs'[CurSk(w)].last_error)
                  /\ IF a1 < MaxAttempts
                     THEN /\ jobs'[CurSk(w)].status = "failed"
                          /\ workers'[w].pc = "rescheduling"
                     ELSE /\ jobs'[CurSk(w)].status = "dead_letter"
                          /\ workers'[w].pc = "loop"
             /\ (workers[w].pc = "rescheduling" /\ moved) =>
                  /\ a1 < MaxAttempts
                  /\ DOMAIN jobs' = DOMAIN jobs \cup {retry_sk}
                  /\ \A k \in DOMAIN jobs \ {retry_sk} : jobs'[k] = jobs[k]
                  /\ jobs'[retry_sk].status = "pending"
                  /\ jobs'[retry_sk].attempts = a1
                  /\ jobs'[retry_sk].job_id = job.job_id
                  /\ jobs'[retry_sk].job_type = job.job_type
                  /\ jobs'[retry_sk].payload = job.payload
                  /\ jobs'[retry_sk].created_at = job.created_at
                  /\ Instant(jobs'[retry_sk].scheduled_for) =
                        now + BaseDelaySeconds * Pow2(a1 - 1)]_vars

\* both branches were taken: a failed row stands next to a dead-lettered
\* retry row of the same job
C11_Witness ==
    \E k1, k2 \in DOMAIN jobs :
        /\ k1[2] = k2[2]
        /\ jobs[k1].status = "failed" /\ jobs[k1].attempts = 1
        /\ jobs[k2].status = "dead_letter" /\ jobs[k2].attempts = MaxAttempts
        /\ Instant(jobs[k2].scheduled_for) > Instant(jobs[k1].scheduled_for)

\* C12: every row a worker moved to dead_letter has attempts >= max_attempts.
C12_DeadLetterAttempts ==
    \A k \in DOMAIN jobs :
        jobs[k].status = "dead_letter" => jobs[k].attempts >= MaxAttempts

\* a row was dead-lettered after its handler had run max_attempts times
C12_Witness ==
    \E k \in DOMAIN jobs :
        /\ jobs[k].status = "dead_letter"
        /\ invoked[k[2]] >= MaxAttempts
        /\ jobs[k].locked_by = None

----------------------------------------------------------------------------
(* One worker polling a table that callers have filled: rows of every       *)
(* status, two job ids, time passing for as long as some row is still ahead *)

JobStatus == {"pending", "in_progress", "completed", "failed", "dead_letter", "cancelled"}

\* rows put_job has stored for job_id j: any status, or pending under a lock
EnqueuedRows(j) ==
    {ScheduledJob(j, <<t, off>>, st, 0, None, 0) :
        t \in 0..MaxSchedule, off \in Offsets, st \in JobStatus}
    \cup InitialRows(j)

\* per job_id no row or one of EnqueuedRows
EnqueuedTables ==
    LET choices == [JobIds -> {None} \cup {Some(r) : r \in UNION {EnqueuedRows(j) : j \in JobIds}}]
        ok(c) == \A j \in JobIds : IsSet(c[j]) => Val(c[j]).job_id = j
        table(c) == LET present == {j \in JobIds : IsSet(c[j])}
                        keys == {make_job_sk(Val(c[j]).scheduled_for, j) : j \in present}
                    IN  [k \in keys |-> Val(c[k[2]])]
    IN  {table(c) : c \in {c \in choices : ok(c)}}

\* a pending row whose key is still beyond the query bound of a poll at the
\* current time, or whose lock has not expired yet
StillAhead(k) ==
    /\ jobs[k].status = "pending"
    /\ \/ ~IsoLeq(k[1], isoformat(utc(clock)))
       \/ (IsSet(jobs[k].lock_expires_at) /\ Val(jobs[k].lock_expires_at) > clock)

\* time passes: up to MaxTime, and beyond it while some pending row is ahead
AdvanceTime ==
    /\ clock < MaxTime \/ \E k \in DOMAIN jobs : StillAhead(k)
    /\ clock' = clock + 1
    /\ UNCHANGED <<jobVars, dedupVars, lockVars>>

InitSolo ==
    /\ clock = 0
    /\ jobs \in EnqueuedTables
    /\ workers = [w \in Workers |-> IdleWorker]
    /\ invoked = [j \in JobIds |-> 0]
    /\ completions = <<>>
    /\ dedup = <<>>
    /\ callers = <<>>
    /\ reserved = <<>>
    /\ lease = None
    /\ procs = <<>>
    /\ lastCall = <<>>

\* the steps of one call of poll_and_process_jobs by worker w
PollStep(w) ==
    \/ PollStart(w)
    \/ PollReturn(w)
    \/ SkipJob(w)
    \/ _try_claim_job(w)
    \/ Dispatch(w)
    \/ Complete(w)
    \/ _handle_job_failure(w)
    \/ _reschedule_job(w)

NextSolo ==
    \/ AdvanceTime
    \/ PollStep("worker-a")

SpecSolo == InitSolo /\ [][NextSolo]_vars

\* the poller keeps being run and time keeps advancing
FairSpecSolo ==
    SpecSolo /\ WF_vars(AdvanceTime) /\ WF_vars(PollStep("worker-a"))

\* C13: with a worker that keeps polling as time advances and no crash,
\* every job that has a pending row eventually has a row in completed or
\* dead_letter.
C13_LifecycleTerminates ==
    \A j \in JobIds :
        (\E k \in DOMAIN jobs : k[2] = j /\ jobs[k].status = "pending")
        ~> (\E k \in DOMAIN jobs :
               k[2] = j /\ jobs[k].status \in {"completed", "dead_letter"})

\* the sort key of a job object
SkOf(job) == make_job_sk(job.scheduled_for, job.job_id)

\* (scheduled_for, job_id) order of two job objects, scheduled_for compared
\* as an instant
DueBefore(a, b) ==
    \/ Instant(a.scheduled_for) < Instant(b.scheduled_for)
    \/ (Instant(a.scheduled_for) = Instant(b.scheduled_for) /\ a.job_id < b.job_id)

\* C14: get_due_jobs(now, limit) returns only rows of the table whose status
\* is pending and whose scheduled_for <= now, in ascending sort-key order; a
\* pending row with scheduled_for = now is returned when the table holds no
\* more than limit rows; rows of any other status are never returned.
C14_DueJobs ==
    [][\A w \in Workers :
         PollStart(w) =>
           LET due == workers'[w].due
               now == workers'[w].now
           IN  /\ \A i \in 1..Len(due) :
                     /\ SkOf(due[i]) \in DOMAIN jobs
                     /\ jobs[SkOf(due[i])] = due[i]
                     /\ due[i].status = "pending"
                     /\ Instant(due[i].scheduled_for) <= now
               /\ \A i, j \in 1..Len(due) :
                     i < j => (SkLeq(SkOf(due[i]), SkOf(due[j])) /\ SkOf(due[i]) # SkOf(due[j]))
               /\ Cardinality(DOMAIN jobs) <= PollingLimit =>
                     \A k \in DOMAIN jobs :
                         (jobs[k].status = "pending" /\ Instant(jobs[k].scheduled_for) = now)
                         => \E i \in 1..Len(due) : due[i] = jobs[k]]_vars

\* C16: one call of poll_and_process_jobs claims and processes at most
\* polling_limit jobs, and it goes through them in ascending
\* (scheduled_for, job_id) order.
C16_LimitAndOrder ==
    \A w \in Workers :
        workers[w].pc # "idle" =>
          /\ Len(workers[w].due) <= PollingLimit
          /\ workers[w].count <= PollingLimit
          /\ workers[w].count < workers[w].i
          /\ \A i, j \in 1..Len(workers[w].due) :
                i < j => DueBefore(workers[w].due[i], workers[w].due[j])

\* a poll at now finds no row it would claim
NothingEligible(tbl, now) ==
    LET due == get_due_jobs(tbl, now, PollingLimit)
    IN  \A i \in 1..Len(due) : ~_is_job_eligible(due[i], now)

\* C17: when poll_and_process_jobs has returned, a second call with the same
\* now and no job enqueued in between finds nothing to claim, whether the
\* jobs of the first call succeeded, were rescheduled or were dead-lettered;
\* and a call that finds nothing to claim returns 0 and changes no row.
C17_SecondPollIdle ==
    [][\A w \in Workers :
         /\ PollReturn(w) => NothingEligible(jobs', workers[w].now)
         /\ (/\ workers[w].pc = "loop"
             /\ \A i \in 1..Len(workers[w].due) :
                    ~_is_job_eligible(workers[w].due[i], workers[w].now))
            => /\ jobs' = jobs
               /\ workers[w].count = 0
               /\ workers'[w].count = 0]_vars

\* a second call at the same now is about to return 0: rows completed and
\* failed by the first call at that now are in the table, the retry row too
C17_Witness ==
    LET w == "worker-a"
    IN  /\ workers[w].pc = "loop"
        /\ workers[w].i > Len(workers[w].due)
        /\ workers[w].count = 0
        /\ workers[w].now = clock
        /\ \E k \in DOMAIN jobs : jobs[k].completed_at = Some(clock)
        /\ \E k1, k2 \in DOMAIN jobs :
              /\ jobs[k1].status = "failed"
              /\ jobs[k2].status = "pending" /\ jobs[k2].attempts = 1
              /\ k2[1] = isoformat(utc(clock + BaseDelaySeconds))

----------------------------------------------------------------------------
(* Properties of eligibility, completion and lock attributes *)

\* C15: during a poll a pending row read with lock_expires_at set and > now
\* is skipped and no attribute of any row changes; a pending row read with
\* lock_expires_at empty or <= now (== now included) is claimed by the
\* polling worker, and a claimed row is handed to its handler.
C15_EligibilityBoundary ==
    [][\A w \in Workers :
         LET job == CurJob(w)
             now == workers[w].now
             moved == workers'[w] # workers[w]
         IN  /\ (/\ workers[w].pc = "loop"
                 /\ workers[w].i <= Len(workers[w].due)
                 /\ job.status = "pending"
                 /\ moved)
                => IF IsSet(job.lock_expires_at) /\ Val(job.lock_expires_at) > now
                   THEN /\ jobs' = jobs
                        /\ workers'[w] = [workers[w] EXCEPT !.i = @ + 1]
                   ELSE /\ jobs'[CurSk(w)].status = "in_progress"
                        /\ jobs'[CurSk(w)].locked_by = Some(w)
                        /\ jobs'[CurSk(w)].lock_expires_at = Some(now + LockTimeout)
                        /\ workers'[w].pc = "claimed"
             /\ (workers[w].pc = "claimed" /\ moved /\ workers'[w].pc # "crashed")
                => /\ invoked'[job.job_id] = invoked[job.job_id] + 1
                   /\ workers'[w].pc \in {"returned", "raised"}]_vars

\* a worker has claimed a row whose lock expired exactly at the poll's now,
\* and the handler has run for it
C15_Witness ==
    \E w \in Workers :
        /\ workers[w].pc = "returned"
        /\ CurJob(w).lock_expires_at = Some(workers[w].now)
        /\ CurJob(w).locked_by = Some("worker-x")
        /\ jobs[CurSk(w)].locked_by = Some(w)

\* C18: every row a worker moves to completed gets completed_at = the now of
\* the poll that processed it, and completed_at >= scheduled_for as instants.
C18_CompletedAt ==
    [][\A w \in Workers :
         Complete(w) =>
           /\ jobs'[CurSk(w)].status = "completed"
           /\ jobs'[CurSk(w)].completed_at = Some(workers[w].now)
           /\ Val(jobs'[CurSk(w)].completed_at) >= Instant(jobs'[CurSk(w)].scheduled_for)]_vars

\* C19: a row in in_progress carries a worker's id in locked_by and a
\* lock_expires_at, set by the claim to the claimant's id and claim-time now +
\* lock_timeout; a row in completed, failed or dead_letter has both empty; a
\* retry row is pending with no lock.
C19_LockFollowsStatus ==
    /\ [](\A k \in DOMAIN jobs :
            /\ jobs[k].status = "in_progress" =>
                  /\ IsSet(jobs[k].locked_by) /\ Val(jobs[k].locked_by) \in Workers
                  /\ IsSet(jobs[k].lock_expires_at)
            /\ jobs[k].status \in {"completed", "failed", "dead_letter"} =>
                  jobs[k].locked_by = None /\ jobs[k].lock_expires_at = None
            /\ (jobs[k].status = "pending" /\ jobs[k].attempts > 0) =>
                  jobs[k].locked_by = None /\ jobs[k].lock_expires_at = None)
    /\ [][\A w \in Workers :
            (workers[w].pc = "loop" /\ workers'[w].pc = "claimed") =>
               /\ jobs'[CurSk(w)].status = "in_progress"
               /\ jobs'[CurSk(w)].locked_by = Some(w)
               /\ jobs'[CurSk(w)].lock_expires_at = Some(workers[w].now + LockTimeout)]_vars

\* a worker holds the claim on a retry row while the row it retried is failed,
\* and a row has been completed
C19_Witness ==
    \E w \in Workers : \E k \in DOMAIN jobs :
        /\ workers[w].pc = "claimed"
        /\ jobs[CurSk(w)].status = "in_progress"
        /\ jobs[CurSk(w)].attempts = 1
        /\ jobs[CurSk(w)].locked_by = Some(w)
        /\ jobs[k].status = "failed" /\ jobs[k].locked_by = None

----------------------------------------------------------------------------
(* SchedulerLock used directly: any process calls acquire, refresh and     *)
(* release on its lock object in any order, as time passes                 *)

\* a call of SchedulerLock.acquire
LockAcquire(p) ==
    /\ LET r == acquire(lease, p, clock)
       IN  /\ lease' = r.lease
           /\ lastCall' = [op |-> "acquire", proc |-> p, ok |-> r.ok]
           /\ procs' = [procs EXCEPT ![p] =
                 IF r.ok THEN [procs[p] EXCEPT !.lock_acquired = TRUE,
                                               !.lastOk = Some(clock)]
                         ELSE procs[p]]
    /\ UNCHANGED <<clock, jobVars, dedupVars>>

\* a call of SchedulerLock.refresh
LockRefresh(p) ==
    /\ LET r == refresh(lease, p, clock, procs[p].lock_acquired)
       IN  /\ lease' = r.lease
           /\ lastCall' = [op |-> "refresh", proc |-> p, ok |-> r.ok]
           /\ procs' = [procs EXCEPT ![p] =
                 IF ~procs[p].lock_acquired THEN procs[p]
                 ELSE IF r.ok
                      THEN [procs[p] EXCEPT !.lastOk = Some(clock), !.refreshed = "passed"]
                      ELSE [procs[p] EXCEPT !.lock_acquired = r.lock_acquired,
                                            !.refreshed = "failed"]]
    /\ UNCHANGED <<clock, jobVars, dedupVars>>

\* the branch a call of SchedulerLock.release takes
ReleaseBranch(lse, p, lock_acquired) ==
    IF ~lock_acquired THEN "release_not_held"
    ELSE IF OwnerCondition(lse, p) THEN "release" ELSE "release_condition_failed"

\* a call of SchedulerLock.release
LockRelease(p) ==
    /\ lease' = release(lease, p, procs[p].lock_acquired)
    /\ lastCall' = [op |-> ReleaseBranch(lease, p, procs[p].lock_acquired),
                    proc |-> p, ok |-> TRUE]
    /\ procs' = [procs EXCEPT ![p].lock_acquired = FALSE]
    /\ UNCHANGED <<clock, jobVars, dedupVars>>

NextLockApi ==
    \/ TickLease
    \/ \E p \in Procs : LockAcquire(p)
    \/ \E p \in Procs : LockRefresh(p)
    \/ \E p \in Procs : LockRelease(p)

SpecLockApi == InitLock /\ [][NextLockApi]_vars

\* C20: refresh performs no store write and returns false when the local
\* lock_acquired is false.  When it is true the record gets timestamp = now
\* and ttl = now + 300 only if its process_id is the caller's, and true is
\* returned; if the record is absent or owned by another process the record
\* is left unchanged, lock_acquired becomes false and false is returned.
C20_RefreshContract ==
    [][\A p \in Procs :
         LockRefresh(p) =>
           IF ~procs[p].lock_acquired
           THEN /\ lease' = lease
                /\ ~procs'[p].lock_acquired
                /\ lastCall' = [op |-> "refresh", proc |-> p, ok |-> FALSE]
           ELSE IF lease # None /\ Val(lease).process_id = p
                THEN /\ lease' = Some([process_id |-> p, timestamp |-> clock,
                                        ttl |-> clock + TtlSeconds])
                     /\ procs'[p].lock_acquired
                     /\ lastCall' = [op |-> "refresh", proc |-> p, ok |-> TRUE]
                ELSE /\ lease' = lease
                     /\ ~procs'[p].lock_acquired
                     /\ lastCall' = [op |-> "refresh", proc |-> p, ok |-> FALSE]]_vars

\* a process whose record was replaced by another process has just had its
\* refresh refused and its flag cleared
C20_Witness ==
    \E p \in Procs :
        /\ lastCall = [op |-> "refresh", proc |-> p, ok |-> FALSE]
        /\ procs[p].refreshed = "failed"
        /\ ~procs[p].lock_acquired
        /\ lease # None /\ Val(lease).process_id # p
        /\ Val(lease).timestamp > StaleSeconds

----------------------------------------------------------------------------
(* SchedulerLock against a store that may answer a call with an error      *)
(* other than ConditionalCheckFailedException; the record is not written   *)

\* Variant: every failed call clears the flag
FlagAfterError_Cleared(op, lock_acquired) == FALSE

\* the local flag after the store call of op has raised such an error:
\* acquire and refresh re-raise before touching it, release clears it in its
\* finally clause
FlagAfterError(op, lock_acquired) ==
    IF op = "release" THEN FALSE ELSE lock_acquired

\* what the caller sees: acquire and refresh re-raise, release logs a warning
\* and returns
ErrorOutcome(op) ==
    IF op = "release" THEN "release_swallowed"
    ELSE IF op = "acquire" THEN "acquire_raised" ELSE "refresh_raised"

\* put_item of acquire raises
AcquireError(p) ==
    /\ lastCall' = [op |-> ErrorOutcome("acquire"), proc |-> p, ok |-> FALSE]
    /\ procs' = [procs EXCEPT ![p].lock_acquired = FlagAfterError("acquire", @)]
    /\ UNCHANGED <<clock, lease, jobVars, dedupVars>>

\* update_item of refresh raises (refresh reaches the store only with the
\* flag set)
RefreshError(p) ==
    /\ procs[p].lock_acquired
    /\ lastCall' = [op |-> ErrorOutcome("refresh"), proc |-> p, ok |-> FALSE]
    /\ procs' = [procs EXCEPT ![p].lock_acquired = FlagAfterError("refresh", @)]
    /\ UNCHANGED <<clock, lease, jobVars, dedupVars>>

\* delete_item of release raises (release reaches the store only with the
\* flag set)
ReleaseError(p) ==
    /\ procs[p].lock_acquired
    /\ lastCall' = [op |-> ErrorOutcome("release"), proc |-> p, ok |-> FALSE]
    /\ procs' = [procs EXCEPT ![p].lock_acquired = FlagAfterError("release", @)]
    /\ UNCHANGED <<clock, lease, jobVars, dedupVars>>

\* the processes calling the lock while the store misbehaves
FaultProcs == {"p1", "p2"}

NextLockFaults ==
    \/ TickLease
    \/ \E p \in FaultProcs : LockAcquire(p)
    \/ \E p \in FaultProcs : LockRefresh(p)
    \/ \E p \in FaultProcs : LockRelease(p)
    \/ \E p \in FaultProcs : AcquireError(p)
    \/ \E p \in FaultProcs : RefreshError(p)
    \/ \E p \in FaultProcs : ReleaseError(p)

SpecLockFaults == InitLock /\ [][NextLockFaults]_vars

\* a step in which process p calls SchedulerLock.release
ReleaseCall(p) == LockRelease(p) \/ ReleaseError(p)

\* C21: release deletes the record only if its process_id is the caller's: a
\* release by a process whose lease was stolen leaves the new holder's record
\* unchanged; after release the caller's lock_acquired is false in every case
\* (successful delete, ConditionFailed, other store error, lock not held).
C21_ReleaseContract ==
    [][\A p \in Procs :
         ReleaseCall(p) =>
           /\ ~procs'[p].lock_acquired
           /\ lease' # lease =>
                 /\ procs[p].lock_acquired
                 /\ lease # None /\ Val(lease).process_id = p
                 /\ lease' = None
           /\ (LockRelease(p) /\ procs[p].lock_acquired
                  /\ lease # None /\ Val(lease).process_id = p) => lease' = None
           /\ (lease # None /\ Val(lease).process_id # p) => lease' = lease]_vars

\* a process whose stale record another process replaced has called release:
\* its delete was refused, the new holder's record stands, its flag is cleared
C21_Witness ==
    \E p \in Procs :
        /\ lastCall = [op |-> "release_condition_failed", proc |-> p, ok |-> TRUE]
        /\ ~procs[p].lock_acquired
        /\ lease # None /\ Val(lease).process_id # p
        /\ procs[Val(lease).process_id].lock_acquired

\* a step in which a store call of process p raises an error other than
\* ConditionalCheckFailedException
ErrorCall(p) == AcquireError(p) \/ RefreshError(p) \/ ReleaseError(p)

\* C30 (as stated): a store error other than ConditionFailed during acquire,
\* refresh or release propagates to the caller and leaves lock_acquired as it
\* was before the call.
C30_ErrorsPropagateAll ==
    [][\A p \in Procs :
         ErrorCall(p) =>
           /\ lastCall'.op \in {"acquire_raised", "refresh_raised", "release_raised"}
           /\ procs'[p].lock_acquired = procs[p].lock_acquired
           /\ lease' = lease]_vars

\* C30 (amended): such an error during acquire or refresh propagates and
\* leaves lock_acquired and the record as they were; during release it is
\* logged and not raised, the record stays and lock_acquired is cleared.
C30_ErrorsPropagate ==
    [][\A p \in Procs :
         /\ (AcquireError(p) \/ RefreshError(p)) =>
               /\ lastCall'.op \in {"acquire_raised", "refresh_raised"}
               /\ procs'[p].lock_acquired = procs[p].lock_acquired
               /\ lease' = lease
         /\ ReleaseError(p) =>
               /\ lastCall'.op = "release_swallowed"
               /\ ~procs'[p].lock_acquired
               /\ lease' = lease]_vars

\* the holder's refresh has raised: it still counts itself the holder and its
\* record is in place
C30_Witness ==
    \E p \in Procs :
        /\ lastCall = [op |-> "refresh_raised", proc |-> p, ok |-> FALSE]
        /\ procs[p].lock_acquired
        /\ lease # None /\ Val(lease).process_id = p

----------------------------------------------------------------------------
(* DistributedScheduler: active jobs, leader-only tasks, shutdown *)

\* C22: at the end of every lock-manager tick of a started scheduler the
\* active jobs (daily-summary enqueue, work-sampling enqueue, worker poller,
\* cleanup) are installed if and only if the process holds the lease locally;
\* a process that lost the lease and re-acquires it has them installed again.
C22_ActiveJobsFollowLease ==
    \A p \in Procs :
        procs[p].state = "running" =>
            /\ procs[p].lock_acquired => ActiveJobIds \subseteq procs[p].timers
            /\ ~procs[p].lock_acquired => procs[p].timers \cap ActiveJobIds = {}

----------------------------------------------------------------------------
(* daily_summary_scheduler.py, work_sampling_scheduler.py                  *)
(* In this part the clock counts hours and a datetime's offset is in hours *)

MaxHour == 12
MaxRuns == 2
PromptsPerDay == 2
HoursPerDay == 24
SummaryHour == 7
WorkdayStartHour == 8
WorkdayEndHour == 17

\* DAILY_SUMMARY_USERS / get_all_users, in the order the loop visits them
EnqueueUsers == <<"U1", "U2">>

\* the utcoffset of the user's configured timezone
UserOffset(user_id) == IF user_id = "U1" THEN 0 ELSE -2

EnqueueTasks == {"daily_summary_scheduler", "work_sampling_scheduler"}

\* local calendar date (days since the epoch) of a UTC instant
LocalDate(now_utc, off) == (now_utc + off) \div HoursPerDay

\* get_next_7am_utc, as local wall-clock hours since the epoch
Next7amLocal(off, now_utc) ==
    LET now_local == now_utc + off
        today_7am_local == LocalDate(now_utc, off) * HoursPerDay + SummaryHour
    IN  IF now_local >= today_7am_local THEN today_7am_local + HoursPerDay
        ELSE today_7am_local

\* get_next_7am_utc: converted back to UTC
get_next_7am_utc(off, now_utc) == utc(Next7amLocal(off, now_utc) - off)

make_daily_summary_job_id(user_id, off, local_7am_utc) ==
    <<"daily_summary", user_id, LocalDate(Instant(local_7am_utc), off)>>

\* uuid4: an id no row of the table carries
uuid4(tbl) == Cardinality(DOMAIN tbl) + 1

\* schedule_daily_summaries, the loop over the users from position i on
RECURSIVE schedule_daily_summaries(_, _, _, _)
schedule_daily_summaries(i, now_utc, tbl, idx) ==
    IF i > Len(EnqueueUsers) THEN [jobs |-> tbl, dedup |-> idx]
    ELSE LET user_id == EnqueueUsers[i]
             off == UserOffset(user_id)
             next_7am_utc == get_next_7am_utc(off, now_utc)
             logical_job_id == make_daily_summary_job_id(user_id, off, next_7am_utc)
             local_date == LocalDate(Instant(next_7am_utc), off)
             r == try_reserve(idx, logical_job_id, local_date, "job",
                              <<isoformat(next_7am_utc)>>)
             job == [ScheduledJob(uuid4(tbl), next_7am_utc, "pending", 0, None, now_utc)
                        EXCEPT !.job_type = "daily_summary", !.payload = user_id]
         IN  schedule_daily_summaries(i + 1, now_utc,
                                      IF r.ok THEN put_job(tbl, job) ELSE tbl, r.dedup)

\* _generate_random_time_in_slot: a fixed point of the slot, determined by
\* user, date and slot; the datetime keeps the user's tzinfo
_generate_random_time_in_slot(off, local_date, slot_index) ==
    LET workday_start == local_date * HoursPerDay + WorkdayStartHour
        slot_start == workday_start
                        + ((WorkdayEndHour - WorkdayStartHour) * slot_index) \div PromptsPerDay
    IN  <<slot_start - off, off>>

\* _schedule_user_work_sampling_jobs, the loop over the slots from slot_index on
RECURSIVE _schedule_user_work_sampling_jobs(_, _, _, _, _)
_schedule_user_work_sampling_jobs(user_id, slot_index, now_utc, tbl, idx) ==
    IF slot_index >= PromptsPerDay THEN [jobs |-> tbl, dedup |-> idx]
    ELSE LET off == UserOffset(user_id)
             local_date == LocalDate(now_utc, off)
             random_time_utc == _generate_random_time_in_slot(off, local_date, slot_index)
             logical_job_id == <<"work_sampling_prompt", user_id, local_date, slot_index>>
             job_id == uuid4(tbl)
             job == [ScheduledJob(job_id, random_time_utc, "pending", 0, None, now_utc)
                        EXCEPT !.job_type = "work_sampling_prompt",
                               !.payload = <<user_id, slot_index>>]
             r == try_reserve(idx, logical_job_id, local_date, "job",
                              make_job_sk(random_time_utc, job_id))
         IN  _schedule_user_work_sampling_jobs(user_id, slot_index + 1, now_utc,
                                               IF r.ok THEN put_job(tbl, job) ELSE tbl,
                                               r.dedup)

\* schedule_work_sampling_jobs, the loop over the users from position i on
RECURSIVE schedule_work_sampling_jobs(_, _, _, _)
schedule_work_sampling_jobs(i, now_utc, tbl, idx) ==
    IF i > Len(EnqueueUsers) THEN [jobs |-> tbl, dedup |-> idx]
    ELSE LET r == _schedule_user_work_sampling_jobs(EnqueueUsers[i], 0, now_utc, tbl, idx)
         IN  schedule_work_sampling_jobs(i + 1, now_utc, r.jobs, r.dedup)

\* the local date each user's rows of a run at now_utc are written for
TargetDates(task, now_utc) ==
    [i \in DOMAIN EnqueueUsers |->
        LET off == UserOffset(EnqueueUsers[i])
        IN  IF task = "daily_summary_scheduler"
            THEN LocalDate(Instant(get_next_7am_utc(off, now_utc)), off)
            ELSE LocalDate(now_utc, off)]

\* one run of an enqueue task; callers[task] remembers the number of runs so
\* far, their UTC days and target dates, and whether a run repeated earlier
\* targets
RunEnqueue(task) ==
    /\ callers[task].runs < MaxRuns
    /\ LET r == IF task = "daily_summary_scheduler"
                THEN schedule_daily_summaries(1, clock, jobs, dedup)
                ELSE schedule_work_sampling_jobs(1, clock, jobs, dedup)
       IN  /\ jobs' = r.jobs
           /\ dedup' = r.dedup
    /\ callers' = [callers EXCEPT ![task] =
          [runs |-> @.runs + 1,
           days |-> @.days \cup {clock \div HoursPerDay},
           targets |-> @.targets \cup {TargetDates(task, clock)},
           repeated |-> @.repeated \/ TargetDates(task, clock) \in @.targets]]
    /\ UNCHANGED <<clock, workers, invoked, completions, reserved, lockVars>>

\* an hour passes
AdvanceHour ==
    /\ clock < MaxHour
    /\ clock' = clock + 1
    /\ UNCHANGED <<jobVars, dedupVars, lockVars>>

InitEnqueue ==
    /\ clock = 0
    /\ jobs = <<>>
    /\ workers = <<>>
    /\ invoked = <<>>
    /\ completions = <<>>
    /\ dedup = <<>>
    /\ callers = [task \in EnqueueTasks |->
                     [runs |-> 0, days |-> {}, targets |-> {}, repeated |-> FALSE]]
    /\ reserved = <<>>
    /\ lease = None
    /\ procs = <<>>
    /\ lastCall = <<>>

NextEnqueue ==
    \/ AdvanceHour
    \/ \E task \in EnqueueTasks : RunEnqueue(task)

SpecEnqueue == InitEnqueue /\ [][NextEnqueue]_vars

\* C25 (as stated): a run of an enqueue task later on a day on which the task
\* already ran for the same users leaves job table and reservations unchanged.
C25_SecondRunSameDay ==
    [][\A task \in EnqueueTasks :
         (RunEnqueue(task) /\ (clock \div HoursPerDay) \in callers[task].days) =>
            jobs' = jobs /\ dedup' = dedup]_vars

\* C25 (amended): a run of an enqueue task whose users have the target dates
\* of an earlier run (daily summary: the local date of each user's next 07:00;
\* work sampling: each user's current local date) leaves job table and
\* reservations unchanged.
C25_SecondRunSameTargets ==
    [][\A task \in EnqueueTasks :
         (RunEnqueue(task) /\ TargetDates(task, clock) \in callers[task].targets) =>
            jobs' = jobs /\ dedup' = dedup]_vars

\* both tasks have run again for target dates they had already handled, with
\* the rows of the first runs in the table
C25_Witness ==
    /\ \A task \in EnqueueTasks : callers[task].repeated
    /\ \E k \in DOMAIN jobs : jobs[k].job_type = "daily_summary"
    /\ \E k \in DOMAIN jobs : jobs[k].job_type = "work_sampling_prompt"

----------------------------------------------------------------------------
(* JobTable.cleanup_old_jobs, as the specification and the tests of        *)
(* job_table describe it.  The clock counts hours.                         *)

MaxCleanupDay == 11
RetentionDays == 7

\* the statuses cleanup removes
CleanupStatuses == {"completed", "failed", "dead_letter", "cancelled"}

\* Variant: every old row is removed whatever its status
Expired_AnyStatus(tbl, now, older_than_days) ==
    {k \in DOMAIN tbl :
        Instant(tbl[k].scheduled_for) < now - older_than_days * HoursPerDay}

\* the rows of a terminal status scheduled before now - older_than_days
Expired(tbl, now, older_than_days) ==
    {k \in DOMAIN tbl :
        /\ tbl[k].status \in CleanupStatuses
        /\ Instant(tbl[k].scheduled_for) < now - older_than_days * HoursPerDay}

\* cleanup_old_jobs: the table afterwards and the number of rows deleted
cleanup_old_jobs(tbl, now, older_than_days) ==
    LET gone == Expired(tbl, now, older_than_days)
    IN  [jobs |-> [k \in DOMAIN tbl \ gone |-> tbl[k]], deleted |-> Cardinality(gone)]

\* the retention periods cleanup is called with: the scheduler's 7 days and
\* the 3 days of test_cleanup_old_jobs_with_custom_days
CleanupDays == {3, RetentionDays}

\* scheduled_for of the stored rows: 10 days and 7 days less an hour before
\* the first sweep, exactly 7 days, 3 days, and after it
CleanupTimes == {0, 71, 72, 168, 250}

CleanupRows(j) ==
    {ScheduledJob(j, <<t, off>>, st, 0, None, 0) :
        t \in CleanupTimes, off \in Offsets, st \in JobStatus}

CleanupTables ==
    LET choices == [JobIds -> {None} \cup {Some(r) : r \in UNION {CleanupRows(j) : j \in JobIds}}]
        ok(c) == \A j \in JobIds : IsSet(c[j]) => Val(c[j]).job_id = j
        tbl(c) == LET ks == {SkOf(Val(c[j])) : j \in {i \in JobIds : IsSet(c[i])}}
                  IN  [k \in ks |-> Val(c[k[2]])]
    IN  {tbl(c) : c \in {x \in choices : ok(x)}}

\* one sweep: JobTable().cleanup_old_jobs(older_than_days); lastCall keeps the
\* count returned
CleanupOldJobs(older_than_days) ==
    /\ LET r == cleanup_old_jobs(jobs, clock, older_than_days)
       IN  /\ jobs' = r.jobs
           /\ lastCall' = [op |-> "cleanup_old_jobs", days |-> older_than_days,
                           deleted |-> r.deleted]
    /\ UNCHANGED <<clock, workers, invoked, completions, dedupVars, lease, procs>>

\* a day passes between sweeps
AdvanceDay ==
    /\ clock + HoursPerDay <= MaxCleanupDay * HoursPerDay
    /\ clock' = clock + HoursPerDay
    /\ UNCHANGED <<jobVars, dedupVars, lockVars>>

InitCleanup ==
    /\ clock = 240
    /\ jobs \in CleanupTables
    /\ workers = <<>>
    /\ invoked = <<>>
    /\ completions = <<>>
    /\ dedup = <<>>
    /\ callers = <<>>
    /\ reserved = <<>>
    /\ lease = None
    /\ procs = <<>>
    /\ lastCall = [op |-> "none", days |-> 0, deleted |-> 0]

NextCleanup ==
    \/ AdvanceDay
    \/ \E d \in CleanupDays : CleanupOldJobs(d)

SpecCleanup == InitCleanup /\ [][NextCleanup]_vars

----------------------------------------------------------------------------
(* job_dispatcher.py: jobs the dispatcher rejects *)

\* pending rows as InitialRows, of a registered or an unregistered job_type
\* and with a payload the schema accepts or rejects
DispatchRows(j) ==
    {[r EXCEPT !.job_type = ty, !.payload = pl] :
        r \in InitialRows(j), ty \in {"heartbeat_event", "unknown_type"},
        pl \in {"p", "invalid"}}

DispatchTables ==
    LET choices == [JobIds -> {None} \cup {Some(r) : r \in UNION {DispatchRows(j) : j \in JobIds}}]
        ok(c) == \A j \in JobIds : IsSet(c[j]) => Val(c[j]).job_id = j
        tbl(c) == LET ks == {SkOf(Val(c[j])) : j \in {i \in JobIds : IsSet(c[i])}}
                  IN  [k \in ks |-> Val(c[k[2]])]
    IN  {tbl(c) : c \in {x \in choices : ok(x)}}

InitDispatch ==
    /\ clock = 0
    /\ jobs \in DispatchTables
    /\ workers = [w \in Workers |-> IdleWorker]
    /\ invoked = [j \in JobIds |-> 0]
    /\ completions = <<>>
    /\ dedup = <<>>
    /\ callers = <<>>
    /\ reserved = <<>>
    /\ lease = None
    /\ procs = <<>>
    /\ lastCall = <<>>

NextDispatch ==
    \/ AdvanceTime
    \/ PollStep("worker-a")

SpecDispatch == InitDispatch /\ [][NextDispatch]_vars

\* C27: for a claimed job whose job_type has no registered handler or whose
\* payload fails the handler's schema, handle() is not invoked and the worker
\* proceeds as after a handler failure: attempts is incremented by one and
\* the row becomes failed, followed by a retry row, or dead_letter, as the
\* retry policy decides.
C27_DispatcherRejects ==
    [][\A w \in Workers :
         LET job == CurJob(w)
             sk == CurSk(w)
             rejected == job.job_type \notin Handlers \/ job.payload = "invalid"
         IN  /\ (Dispatch(w) /\ rejected) =>
                   invoked' = invoked /\ workers'[w].pc = "raised"
             /\ (_handle_job_failure(w) /\ rejected) =>
                   /\ invoked' = invoked
                   /\ jobs'[sk].attempts = job.attempts + 1
                   /\ jobs'[sk].status =
                         IF job.attempts + 1 < MaxAttempts THEN "failed" ELSE "dead_letter"
                   /\ jobs'[sk].status = "failed" => workers'[w].pc = "rescheduling"
             /\ (_reschedule_job(w) /\ rejected) =>
                   \E k \in DOMAIN jobs' :
                       /\ k[2] = job.job_id
                       /\ jobs'[k].status = "pending"
                       /\ jobs'[k].attempts = job.attempts + 1
                       /\ Instant(jobs'[k].scheduled_for)
                            = workers[w].now + BaseDelaySeconds * Pow2(job.attempts)]_vars

\* a job of an unregistered type went failed, retry row, dead_letter without
\* its handler ever being invoked
C27_Witness ==
    \E j \in JobIds :
        /\ invoked[j] = 0
        /\ \E k \in DOMAIN jobs :
              k[2] = j /\ jobs[k].job_type = "unknown_type" /\ jobs[k].status = "failed"
                       /\ jobs[k].attempts = 1
        /\ \E k \in DOMAIN jobs :
              k[2] = j /\ jobs[k].job_type = "unknown_type" /\ jobs[k].status = "dead_letter"
                       /\ jobs[k].attempts = MaxAttempts

----------------------------------------------------------------------------
(* retry_policy.py: the policy applied to attempt counts and times *)

MaxPolicyAttempts == 4

NoPolicyCall == [op |-> "none", attempts |-> 0, now |-> 0, delay |-> 0, next_run |-> 0,
                 retry |-> FALSE]

\* a call of RetryPolicy.calculate_delay; callers keeps the call before it
CallCalculateDelay(attempts) ==
    /\ lastCall' = [NoPolicyCall EXCEPT !.op = "calculate_delay", !.attempts = attempts,
                                        !.delay = calculate_delay(attempts)]
    /\ callers' = lastCall
    /\ UNCHANGED <<clock, jobVars, dedup, reserved, lease, procs>>

\* a call of RetryPolicy.calculate_next_run
CallCalculateNextRun(attempts) ==
    /\ lastCall' = [NoPolicyCall EXCEPT !.op = "calculate_next_run", !.attempts = attempts,
                                        !.now = clock,
                                        !.next_run = calculate_next_run(clock, attempts)]
    /\ callers' = lastCall
    /\ UNCHANGED <<clock, jobVars, dedup, reserved, lease, procs>>

\* a call of RetryPolicy.should_retry
CallShouldRetry(attempts) ==
    /\ lastCall' = [NoPolicyCall EXCEPT !.op = "should_retry", !.attempts = attempts,
                                        !.retry = should_retry(attempts)]
    /\ callers' = lastCall
    /\ UNCHANGED <<clock, jobVars, dedup, reserved, lease, procs>>

InitPolicy ==
    /\ clock = 0
    /\ jobs = <<>>
    /\ workers = <<>>
    /\ invoked = <<>>
    /\ completions = <<>>
    /\ dedup = <<>>
    /\ callers = NoPolicyCall
    /\ reserved = <<>>
    /\ lease = None
    /\ procs = <<>>
    /\ lastCall = NoPolicyCall

NextPolicy ==
    \/ Tick
    \/ \E attempts \in 1..MaxPolicyAttempts : CallCalculateDelay(attempts)
    \/ \E attempts \in 1..MaxPolicyAttempts : CallCalculateNextRun(attempts)
    \/ \E attempts \in 1..MaxPolicyAttempts : CallShouldRetry(attempts)

SpecPolicy == InitPolicy /\ [][NextPolicy]_vars

\* C28: for attempts >= 1, calculate_delay(attempts) is base_delay_seconds *
\* 2^(attempts-1), calculate_next_run(now, attempts) is now plus that delay,
\* and should_retry(attempts) is true exactly when attempts < max_attempts;
\* the results depend on the arguments only: a call repeated with the same
\* arguments returns what it returned before.
C28_RetryPolicy ==
    /\ lastCall.op = "calculate_delay" =>
          /\ lastCall.delay = BaseDelaySeconds * 2^(lastCall.attempts - 1)
          /\ lastCall.attempts = 1 => lastCall.delay = BaseDelaySeconds
    /\ lastCall.op = "calculate_next_run" =>
          lastCall.next_run = lastCall.now + BaseDelaySeconds * 2^(lastCall.attempts - 1)
    /\ lastCall.op = "should_retry" =>
          /\ lastCall.retry <=> lastCall.attempts < MaxAttempts
          /\ lastCall.attempts = MaxAttempts => ~lastCall.retry
          /\ lastCall.attempts = MaxAttempts - 1 => lastCall.retry
    /\ (/\ callers.op = lastCall.op
        /\ callers.attempts = lastCall.attempts
        /\ callers.now = lastCall.now) => callers = lastCall
    /\ (/\ callers.op = "calculate_delay" /\ lastCall.op = "calculate_delay"
        /\ lastCall.attempts = callers.attempts + 1) => lastCall.delay = 2 * callers.delay

\* should_retry(max_attempts - 1) was granted and should_retry(max_attempts)
\* has just been refused
C28_Witness ==
    /\ callers.op = "should_retry" /\ callers.attempts = MaxAttempts - 1 /\ callers.retry
    /\ lastCall.op = "should_retry" /\ lastCall.attempts = MaxAttempts /\ ~lastCall.retry

----------------------------------------------------------------------------
(* job_worker.py: the count poll_and_process_jobs returns *)

\* Variant: a failed claim is counted as processed
ClaimError_Counted(w) ==
    /\ workers[w].pc = "loop"
    /\ workers[w].i <= Len(workers[w].due)
    /\ _is_job_eligible(CurJob(w), workers[w].now)
    /\ workers' = [workers EXCEPT ![w].i = @ + 1, ![w].count = @ + 1]
    /\ UNCHANGED <<clock, jobs, invoked, completions, dedupVars, lockVars>>

\* loop body, job eligible, the store raises in _try_claim_job: it returns
\* False, _claim_and_run returns False and the loop goes on
ClaimError(w) ==
    /\ workers[w].pc = "loop"
    /\ workers[w].i <= Len(workers[w].due)
    /\ _is_job_eligible(CurJob(w), workers[w].now)
    /\ workers' = [workers EXCEPT ![w].i = @ + 1]
    /\ UNCHANGED <<clock, jobs, invoked, completions, dedupVars, lockVars>>

NextPoll ==
    \/ AdvanceTime
    \/ PollStep("worker-a")
    \/ ClaimError("worker-a")

SpecPoll == InitSolo /\ [][NextPoll]_vars

\* the fetched jobs the loop of worker w has passed whose row this call has
\* taken to completed, to failed with a retry row stored, or to dead_letter
Transitioned(w) ==
    {k \in 1..(workers[w].i - 1) :
        LET sk == SkOf(workers[w].due[k])
        IN  /\ sk \in DOMAIN jobs
            /\ \/ jobs[sk].status \in {"completed", "dead_letter"}
               \/ /\ jobs[sk].status = "failed"
                  /\ \E r \in DOMAIN jobs :
                        /\ r[2] = sk[2]
                        /\ jobs[r].status = "pending"
                        /\ jobs[r].attempts = jobs[sk].attempts}

\* C29: the count poll_and_process_jobs returns is the number of fetched jobs
\* this call claimed and took to completed, failed (with retry row) or
\* dead_letter; a job skipped as ineligible or whose claim failed is not
\* counted.
C29_ProcessedCount ==
    /\ [](\A w \in Workers :
            workers[w].pc = "loop" => workers[w].count = Cardinality(Transitioned(w)))
    /\ [][\A w \in Workers :
            (SkipJob(w) \/ ClaimError(w)) =>
               workers'[w].count = workers[w].count /\ jobs' = jobs]_vars

\* a poll is about to return 1 after fetching two jobs: one it processed, the
\* other was eligible but its claim failed
C29_Witness ==
    LET w == "worker-a"
    IN  /\ workers[w].pc = "loop"
        /\ workers[w].i > Len(workers[w].due)
        /\ Len(workers[w].due) = 2
        /\ workers[w].count = 1
        /\ \E k \in 1..2 :
              /\ _is_job_eligible(workers[w].due[k], workers[w].now)
              /\ jobs[SkOf(workers[w].due[k])].status = "pending"

----------------------------------------------------------------------------
(* DistributedScheduler: the leader-only tasks and shutdown.  In this part *)
(* callers[p] holds the tasks of process p that the timer scheduler has    *)
(* handed to its executor and that have not run yet, and workers[p] tells  *)
(* whether p has created its JobWorker.                                    *)

MaxPending == 1

\* Variant: the task does not look at the flag
LeaderOnly_Unchecked(lock_acquired) == TRUE

\* the check each leader-only task starts with: if not
\* self.lock.lock_acquired: return
LeaderOnly(lock_acquired) == lock_acquired

\* the timer of an installed active job fires: the run is handed to the
\* executor (max_instances=1)
FireTimer(p, task) ==
    /\ procs[p].state = "running"
    /\ task \in procs[p].timers \cap ActiveJobIds
    /\ task \notin callers[p]
    /\ Cardinality(callers[p]) < MaxPending
    /\ callers' = [callers EXCEPT ![p] = @ \cup {task}]
    /\ UNCHANGED <<clock, jobVars, dedup, reserved, lockVars>>

\* a handed-over run executes: _poll_and_process_jobs,
\* _schedule_daily_summaries, _schedule_work_sampling_jobs or
\* _cleanup_old_jobs.  lastCall.ok tells whether the task went on to its
\* store operations; the poller creates the JobWorker on its first such run
RunTask(p, task) ==
    /\ procs[p].state = "running"
    /\ task \in callers[p]
    /\ callers' = [callers EXCEPT ![p] = @ \ {task}]
    /\ IF LeaderOnly(procs[p].lock_acquired)
       THEN /\ lastCall' = [op |-> task, proc |-> p, ok |-> TRUE]
            /\ workers' = IF task = "job_worker_poller"
                          THEN [workers EXCEPT ![p] = TRUE] ELSE workers
       ELSE /\ lastCall' = [op |-> task, proc |-> p, ok |-> FALSE]
            /\ workers' = workers
    /\ UNCHANGED <<clock, jobs, invoked, completions, dedup, reserved, lease, procs>>

\* shutdown in which scheduler.shutdown(wait=True) raises: the except clause
\* logs, finally clears started, release follows; the timers that were not
\* removed are still installed
ShutdownStopRaises(p) ==
    /\ procs[p].state = "running"
    /\ lease' = release(lease, p, procs[p].lock_acquired)
    /\ lastCall' = [op |-> "release", proc |-> p, ok |-> TRUE]
    /\ procs' = [procs EXCEPT ![p] =
          [_remove_active_jobs(procs[p]) EXCEPT !.state = "stopped",
                                                !.lock_acquired = FALSE,
                                                !.lastOk = None, !.refreshed = "never"]]
    /\ UNCHANGED <<clock, jobVars, dedupVars>>

\* shutdown of a scheduler that is not started: only release is called
ShutdownNotStarted(p) ==
    /\ procs[p].state = "stopped"
    /\ lease' = release(lease, p, procs[p].lock_acquired)
    /\ lastCall' = [op |-> "release", proc |-> p, ok |-> TRUE]
    /\ procs' = [procs EXCEPT ![p].lock_acquired = FALSE]
    /\ UNCHANGED <<clock, jobVars, dedupVars>>

\* shutdown(wait=True) returns once the runs handed to the executor are over
ShutdownCall(p) ==
    /\ callers[p] = {}
    /\ shutdown(p) \/ ShutdownStopRaises(p) \/ ShutdownNotStarted(p)

\* time passes, long enough for an unrefreshed record to become stale
LeaderTick ==
    /\ clock + StaleSeconds + 1 <= MaxLeaseTime
    /\ clock' = clock + StaleSeconds + 1
    /\ UNCHANGED <<jobVars, dedupVars, lockVars>>

InitLeader ==
    /\ clock = 0
    /\ jobs = <<>>
    /\ workers = [p \in Procs |-> FALSE]
    /\ invoked = <<>>
    /\ completions = <<>>
    /\ dedup = <<>>
    /\ callers = [p \in Procs |-> {}]
    /\ reserved = <<>>
    /\ lease = None
    /\ procs = [p \in Procs |-> NewProc]
    /\ lastCall = [op |-> "none", proc |-> "none", ok |-> FALSE]

NextLeader ==
    \/ LeaderTick
    \/ \E p \in FaultProcs : start(p)
    \/ \E p \in FaultProcs : _manage_lock(p)
    \/ \E p \in FaultProcs : ShutdownCall(p)
    \/ \E p \in FaultProcs, task \in ActiveJobIds : FireTimer(p, task)
    \/ \E p \in FaultProcs, task \in ActiveJobIds : RunTask(p, task)

SpecLeader == InitLeader /\ [][NextLeader]_vars

\* C23: a leader-only task performs no store operation and creates no worker
\* when lock_acquired is false at the time it runs; a worker poll runs only
\* on a process that locally holds the lease.
C23_LeaderOnlyTasks ==
    [][\A p \in Procs, task \in ActiveJobIds :
         RunTask(p, task) =>
           /\ ~procs[p].lock_acquired =>
                 /\ ~lastCall'.ok
                 /\ workers' = workers
                 /\ lease' = lease /\ jobs' = jobs /\ dedup' = dedup
           /\ (task = "job_worker_poller" /\ lastCall'.ok) => procs[p].lock_acquired]_vars

\* the poller of a process that had just lost the lease ran and returned at
\* once: no worker exists and the record is the new holder's
C23_Witness ==
    \E p \in Procs :
        /\ lastCall = [op |-> "job_worker_poller", proc |-> p, ok |-> FALSE]
        /\ ~procs[p].lock_acquired
        /\ procs[p].refreshed = "failed"
        /\ ~workers[p]
        /\ lease # None /\ Val(lease).process_id # p

----------------------------------------------------------------------------
(* Properties of the queue as a whole *)

\* C31: every pending job whose scheduled_for is at or before now is
\* eventually returned by get_due_jobs and claimed, provided a worker keeps
\* polling, however many completed, failed, dead_letter or cancelled rows
\* precede it in sort-key order.
C31_NoStarvation ==
    \A j \in JobIds :
        (\E k \in DOMAIN jobs :
            /\ k[2] = j
            /\ jobs[k].status = "pending"
            /\ Instant(jobs[k].scheduled_for) <= clock)
        ~> (\E k \in DOMAIN jobs : k[2] = j /\ jobs[k].status = "in_progress")

\* C32: no job is dispatched before it is due: the worker invokes a handler
\* for a row written by the enqueuers (daily-summary task, work-sampling task
\* for users in any timezone, retry rescheduling) only when the row's
\* scheduled_for instant is at or before the poll's now.
C32_NotBeforeDue ==
    [][\A w \in Workers :
         Dispatch(w) => Instant(CurJob(w).scheduled_for) <= workers[w].now]_vars

\* C33: in every reachable state, also after a worker crash-stopped between
\* two store writes, every row a worker set to failed has a retry row with
\* the same job_id carrying its attempts value (or a later one); only a live
\* worker that is between the two writes of _reschedule_job may still owe it.
C33_FailedHasRetry ==
    \A k \in DOMAIN jobs :
        jobs[k].status = "failed" =>
            \/ \E r \in DOMAIN jobs :
                  r # k /\ r[2] = k[2] /\ jobs[r].attempts >= jobs[k].attempts
            \/ \E w \in Workers : workers[w].pc = "rescheduling" /\ CurSk(w) = k

\* C34: for every job_id, under any interleaving of workers, at most one row
\* with that job_id is in status pending or in_progress.
C34_OneLiveRow ==
    \A j \in JobIds :
        Cardinality({k \in DOMAIN jobs :
                        k[2] = j /\ jobs[k].status \in {"pending", "in_progress"}}) <= 1

----------------------------------------------------------------------------
(* Properties of the enqueue tasks and their reservations *)

\* C35: every reservation written by an enqueue stores job_pk = 'job' and a
\* job_sk equal to the sort key of the job row the same enqueue inserts, so
\* once the enqueue is over the reservation points at an existing job row.
C35_ReservationPointsAtJob ==
    \A key \in DOMAIN dedup :
        /\ dedup[key].job_pk = "job"
        /\ dedup[key].job_sk \in DOMAIN jobs

\* schedule_if_needed after a successful reservation when put_job raises or
\* the process stops before it: the reservation is kept, no row is written
\* and the caller gets no return value
PutJobFails(c) ==
    /\ callers[c].pc = "reserved"
    /\ callers' = [callers EXCEPT ![c].pc = "done"]
    /\ UNCHANGED <<clock, jobVars, dedup, reserved, lockVars>>

NextDedupFaults ==
    \/ NextDedup
    \/ \E c \in Calls : PutJobFails(c)

SpecDedupFaults == InitDedup /\ [][NextDedupFaults]_vars

\* every call that reserved goes on to put_job unless it fails, and the
\* enqueue is run again for every (logical_id, date) while calls remain
FairSpecDedupFaults ==
    /\ SpecDedupFaults
    /\ \A c \in Calls : WF_vars(StoreReservedJob(c) \/ PutJobFails(c))
    /\ \A l \in LogicalIds, d \in Dates :
          WF_vars(\E c \in Calls, t \in 0..MaxSchedule : schedule_if_needed(c, l, d, t))

\* C36: every reservation eventually has its job row, also when put_job
\* failed or the process stopped after try_reserve and the enqueue is run
\* again for the same (logical_id, date).
C36_ReservationGetsJob ==
    \A l \in LogicalIds, d \in Dates :
        (DedupKey(l, d) \in DOMAIN dedup)
        ~> (/\ DedupKey(l, d) \in DOMAIN dedup
            /\ dedup[DedupKey(l, d)].job_sk \in DOMAIN jobs)

----------------------------------------------------------------------------
(* The worker over jobs that were enqueued through the deduplication index *)

\* the calls whose job_id the worker model counts invocations for
ReservedCalls == {c \in Calls : CallJobId(c) \in JobIds}

\* the bucket the enqueues of this part reserve in
ReservedDate == "2025-01-15"

InitReserved ==
    /\ clock = 0
    /\ jobs = <<>>
    /\ workers = [w \in Workers |-> IdleWorker]
    /\ invoked = [j \in JobIds |-> 0]
    /\ completions = <<>>
    /\ dedup = <<>>
    /\ callers = [c \in Calls |-> IdleCall]
    /\ reserved = [k \in {DedupKey(l, d) : l \in LogicalIds, d \in Dates} |-> 0]
    /\ lease = None
    /\ procs = <<>>
    /\ lastCall = <<>>

\* the steps of poll_and_process_jobs a lone worker can take: every row it
\* fetches is pending and unlocked, so the skip branch is never entered
ReservedStep(w) ==
    \/ PollStart(w)
    \/ PollReturn(w)
    \/ _try_claim_job(w)
    \/ Dispatch(w)
    \/ Complete(w)
    \/ _handle_job_failure(w)
    \/ _reschedule_job(w)

NextReserved ==
    \/ \E c \in ReservedCalls, l \in LogicalIds, t \in 0..MaxSchedule :
          schedule_if_needed(c, l, ReservedDate, t)
    \/ \E c \in ReservedCalls : StoreReservedJob(c)
    \/ AdvanceTime
    \/ ReservedStep("worker-a")

SpecReserved == InitReserved /\ [][NextReserved]_vars

\* C37: no step of the worker (poll, claim, dispatch, complete, fail,
\* reschedule, dead-letter) creates, changes or deletes a reservation, and the
\* row a reservation points at is still in the table afterwards: after a retry
\* the reservation still names the original job key.
C37_WorkerLeavesReservations ==
    [][(\E w \in Workers : PollStep(w)) =>
          /\ dedup' = dedup
          /\ \A key \in DOMAIN dedup :
                dedup[key].job_sk \in DOMAIN jobs => dedup'[key].job_sk \in DOMAIN jobs']_vars

\* a reserved job failed and its retry row is stored; the reservation names
\* the failed row
C37_Witness ==
    \E key \in DOMAIN dedup :
        /\ dedup[key].job_sk \in DOMAIN jobs
        /\ jobs[dedup[key].job_sk].status = "failed"
        /\ \E r \in DOMAIN jobs :
              /\ r # dedup[key].job_sk
              /\ r[2] = dedup[key].job_sk[2]
              /\ jobs[r].status = "pending"
              /\ jobs[r].attempts = jobs[dedup[key].job_sk].attempts

----------------------------------------------------------------------------
(* Properties of the leader's timers *)

\* C38: every timer _add_active_jobs installs (user_timezone_sync included)
\* is removed by _remove_active_jobs: a running process that does not hold
\* the lease has none of them installed.
C38_AddedTimersRemoved ==
    \A p \in Procs :
        (procs[p].state = "running" /\ ~procs[p].lock_acquired) =>
            procs[p].timers \cap (ActiveJobIds \cup {"user_timezone_sync"}) = {}

\* C39: a healthy leader is never deposed. While the process whose record
\* is in the table keeps running and its record was written at most the
\* lock-check interval (30 seconds) ago by the common clock, a step leaves
\* the record its own, its refresh does not report loss, and no other
\* process's acquire succeeds.
C39_HealthyLeaderKept ==
    [][\A p \in Procs :
          (/\ Running(p)
           /\ procs[p].lock_acquired
           /\ OwnerCondition(lease, p)
           /\ clock - Val(lease).timestamp <= LockCheckInterval
           /\ procs'[p].state = "running")
          => /\ OwnerCondition(lease', p)
             /\ procs'[p].lock_acquired
             /\ \A q \in Procs \ {p} :
                   procs'[q].lock_acquired => procs[q].lock_acquired]_vars

\* the leader has refreshed, a full lock-check interval has passed since, and
\* another running process has just tried to acquire and failed
C39_Witness ==
    \E p \in Procs :
        /\ Running(p)
        /\ procs[p].lock_acquired
        /\ procs[p].refreshed = "passed"
        /\ OwnerCondition(lease, p)
        /\ clock - Val(lease).timestamp = LockCheckInterval
        /\ lastCall.op = "acquire"
        /\ lastCall.proc # p
        /\ ~lastCall.ok
        /\ Running(lastCall.proc)

----------------------------------------------------------------------------
(* The handlers of the worker the leader builds *)

\* the modules whose import runs @register_handler decorators
HandlerModules == {"summary_jobs", "work_sampling_handler", "heartbeat",
                   "daily_summary_scheduler"}

\* the job type DailySummaryHandler of daily_summary_scheduler registers
DailySummaryHandlerTypes == {"daily_summary"}

\* the job types a module's import adds to global_dispatcher
ModuleHandlers(m) ==
    CASE m = "summary_jobs" -> {"generate_summary", "send_slack_message"}
      [] m = "work_sampling_handler" -> {"work_sampling_prompt"}
      [] m = "heartbeat" -> {"heartbeat_event"}
      [] m = "daily_summary_scheduler" -> DailySummaryHandlerTypes
      [] OTHER -> {}

\* the handler modules the process has imported so far, apart from those
\* register_all_handlers_from_global imports itself: _schedule_daily_summaries
\* imports daily_summary_scheduler when it first runs
ImportedModules ==
    IF callers["daily_summary_scheduler"].runs > 0
    THEN {"daily_summary_scheduler"} ELSE {}

\* JobWorker.register_all_handlers_from_global: import summary_jobs and
\* work_sampling_handler, then copy what global_dispatcher holds
register_all_handlers_from_global(imported) ==
    UNION {ModuleHandlers(m) : m \in imported \cup {"summary_jobs", "work_sampling_handler"}}

\* _poll_and_process_jobs, first call: the JobWorker is created and its
\* handlers are registered; workers holds the registered job types
BuildJobWorker ==
    /\ workers = None
    /\ workers' = Some(register_all_handlers_from_global(ImportedModules))
    /\ UNCHANGED <<clock, jobs, invoked, completions, dedupVars, lockVars>>

MaxSummaries == 1

\* generate_summary_job, run by the worker's generate_summary handler for
\* user_id: the follow-up send_slack_message job is stored, due now
generate_summary_job(user_id) ==
    /\ IsSet(workers)
    /\ "generate_summary" \in Val(workers)
    /\ Cardinality({k \in DOMAIN jobs : jobs[k].job_type = "send_slack_message"})
          < MaxSummaries
    /\ jobs' = put_job(jobs, [ScheduledJob(uuid4(jobs), utc(clock), "pending", 0,
                                           None, clock)
                                 EXCEPT !.job_type = "send_slack_message",
                                        !.payload = user_id])
    /\ UNCHANGED <<clock, workers, invoked, completions, dedupVars, lockVars>>

NextRegistry ==
    \/ AdvanceHour
    \/ \E task \in EnqueueTasks : RunEnqueue(task)
    \/ BuildJobWorker
    \/ \E i \in DOMAIN EnqueueUsers : generate_summary_job(EnqueueUsers[i])

SpecRegistry == InitEnqueue /\ [][NextRegistry]_vars

\* C40: every job_type the core enqueues (daily_summary,
\* work_sampling_prompt, and send_slack_message from the generate_summary
\* handler) has a handler registered in the worker built with
\* register_all_handlers_from_global.
C40_EnqueuedTypesHandled ==
    IsSet(workers) =>
        \A k \in DOMAIN jobs : jobs[k].job_type \in Val(workers)

====
